---- MODULE Spec2Model ----
(***************************************************************************)
(* ynab-itemized: reconciliation of itemized receipts with ledger (YNAB)   *)
(* transactions.  The module models                                        *)
(*   - the split builder  (services/subtransaction.py),                    *)
(*   - the transaction matcher over the store (services/matching.py),      *)
(*   - receipt ingestion and the persistence facade                        *)
(*     (integrations/amazon.py, database/manager.py, cli.py).              *)
(*                                                                         *)
(* Number representation.  A Decimal in major units (dollars) is held as   *)
(* an integer count of 1/10000 of a major unit, so that int(x * 1000)      *)
(* truncates.  A ledger amount is an integer number of milliunits, as the  *)
(* ledger API delivers it and as the store keeps it.                       *)
(***************************************************************************)
EXTENDS Integers, Sequences, FiniteSets, TLC

VARIABLES
    build_call,             \* arguments of create_subtransactions_from_items
    build_result,           \* its outcome: returned list or raised error
    ynab_transactions,      \* table ynab_transactions: id -> row
    itemized_transactions,  \* table itemized_transactions: id -> row
    transaction_items,      \* table transaction_items: set of rows
    transaction_matches,    \* table transaction_matches: id -> row
    csv_rows,               \* the data rows of the CSV file handed to the Amazon import
    csv_fieldnames,         \* its header: the set of column names
    api_requests,           \* the requests sent to the ledger API, in order
    uuid_counter,           \* number of uuid4() values drawn so far
    last                    \* the last operation called and what it returned

vars == << build_call, build_result, ynab_transactions, itemized_transactions,
           transaction_items, transaction_matches, csv_rows, csv_fieldnames, api_requests, uuid_counter, last >>

storeVars == << ynab_transactions, itemized_transactions, transaction_items,
                transaction_matches, csv_rows, csv_fieldnames, api_requests, uuid_counter, last >>

buildVars == << build_call, build_result >>

----------------------------------------------------------------------------
(* Optional values: None is <<>>, a present value v is <<v>>.              *)
(* Nullable string columns hold the string NULL.                           *)

None == <<>>

Some(v) == <<v>>

NULL == "NULL"

Abs(x) == IF x < 0 THEN -x ELSE x

Max(a, b) == IF a >= b THEN a ELSE b

\* Python truthiness of an Optional[Decimal]: None and zero are both falsy.
Truthy(o) == o # None /\ o[1] # 0

----------------------------------------------------------------------------
(* Split builder: SubtransactionService                                    *)

\* int(x * 1000) for a Decimal x: truncation toward zero, in milliunits.
Int1000(x) == IF x >= 0 THEN x \div 10 ELSE -((-x) \div 10)

RECURSIVE SumAmounts(_)
SumAmounts(s) == IF s = <<>> THEN 0 ELSE s[1].amount + SumAmounts(Tail(s))

ItemSubtransaction(item) ==
    [amount |-> -Abs(Int1000(item.amount)), memo |-> item.name, category_id |-> NULL]

TaxSubtransaction(t, include_tax) ==
    IF include_tax /\ Truthy(t.total_tax)
    THEN << [amount |-> -Int1000(t.total_tax[1]), memo |-> "Tax", category_id |-> NULL] >>
    ELSE <<>>

DiscountSubtransaction(t, include_discount) ==
    IF include_discount /\ Truthy(t.total_discount)
    THEN << [amount |-> Int1000(t.total_discount[1]), memo |-> "Discount",
             category_id |-> NULL] >>
    ELSE <<>>

\* The list as emitted before _validate_subtransaction_amounts runs.
EmittedSubtransactions(t, include_tax, include_discount) ==
    [k \in 1..Len(t.items) |-> ItemSubtransaction(t.items[k])]
        \o TaxSubtransaction(t, include_tax)
        \o DiscountSubtransaction(t, include_discount)

\* 10 milliunits = 1 cent: the largest difference the last entry absorbs.
RoundingTolerance == 10

\* Returns the list after the in-place adjustment, or raises ValueError.
_validate_subtransaction_amounts(subtransactions, expected_total) ==
    LET subtx_sum == SumAmounts(subtransactions)
        expected_milliunits == -Int1000(expected_total)
        diff == Abs(subtx_sum - expected_milliunits)
        adjustment == expected_milliunits - subtx_sum
        n == Len(subtransactions)
    IN  IF subtransactions = <<>>
        THEN [raised |-> FALSE, diff |-> 0, subtransactions |-> subtransactions]
        ELSE IF subtx_sum = expected_milliunits
        THEN [raised |-> FALSE, diff |-> 0, subtransactions |-> subtransactions]
        ELSE IF diff <= RoundingTolerance
        THEN [raised |-> FALSE, diff |-> diff,
              subtransactions |->
                  [subtransactions EXCEPT ![n].amount = @ + adjustment]]
        ELSE [raised |-> TRUE, diff |-> diff, subtransactions |-> <<>>]

create_subtransactions_from_items(t, include_tax, include_discount) ==
    LET subtransactions == EmittedSubtransactions(t, include_tax, include_discount)
    IN  IF Truthy(t.total_amount)
        THEN _validate_subtransaction_amounts(subtransactions, t.total_amount[1])
        ELSE [raised |-> FALSE, diff |-> 0, subtransactions |-> subtransactions]

----------------------------------------------------------------------------
(* Inputs of the split builder                                             *)

MaxItems == 2

ItemNames == {"Item 1", "Item 2"}

\* 0.0015, 0.01, 10.00, 15.00
ItemAmounts == {15, 100, 100000, 150000}

\* unset, 0.00, 0.01, 10.01, 25.00, 30.00
TotalAmounts == {None, Some(0), Some(100), Some(100100), Some(250000), Some(300000)}

TaxAmounts == {None, Some(0), Some(100)}

DiscountAmounts == {None, Some(100)}

TransactionItems == [name : ItemNames, amount : ItemAmounts]

ItemLists == UNION {[1..n -> TransactionItems] : n \in 0..MaxItems}

ItemizedTransactionModels ==
    [items : ItemLists, total_amount : TotalAmounts,
     total_tax : TaxAmounts, total_discount : DiscountAmounts]

NoBuildCall ==
    [itemized_transaction |->
         [items |-> <<>>, total_amount |-> None, total_tax |-> None,
          total_discount |-> None],
     include_tax_subtransaction |-> TRUE,
     include_discount_subtransaction |-> TRUE]

NoBuildResult == [called |-> FALSE, raised |-> FALSE, diff |-> 0, subtransactions |-> <<>>]

\* The store is not touched by the split builder.
EmptyStore ==
    /\ ynab_transactions = << >>
    /\ itemized_transactions = << >>
    /\ transaction_items = {}
    /\ transaction_matches = << >>
    /\ csv_rows = << >>
    /\ csv_fieldnames = {}
    /\ api_requests = << >>
    /\ uuid_counter = 0
    /\ last = [op |-> "none"]

InitBuild ==
    /\ build_call \in [itemized_transaction : ItemizedTransactionModels,
                       include_tax_subtransaction : BOOLEAN,
                       include_discount_subtransaction : BOOLEAN]
    /\ build_result = NoBuildResult
    /\ EmptyStore

CreateSubtransactions ==
    /\ ~build_result.called
    /\ build_result' =
           [called |-> TRUE] @@
           create_subtransactions_from_items(build_call.itemized_transaction,
                                             build_call.include_tax_subtransaction,
                                             build_call.include_discount_subtransaction)
    /\ UNCHANGED << build_call, storeVars >>

NextBuild == CreateSubtransactions

SpecBuild == InitBuild /\ [][NextBuild]_vars

----------------------------------------------------------------------------
(* Transaction matcher: scoring (TransactionMatcher._calculate_match_score) *)
(*                                                                          *)
(* A name is a sequence of characters.  A score is the exact value          *)
(* num / den of the sum the code accumulates in floating point.             *)

LowerChar(c) == CASE c = "A" -> "a" [] c = "B" -> "b" [] c = "C" -> "c" [] OTHER -> c

Lower(name) == [k \in 1..Len(name) |-> LowerChar(name[k])]

\* Matching blocks <<i, j, k>>: a[i..i+k-1] = b[j..j+k-1] inside the two ranges.
CommonBlocks(a, b, alo, ahi, blo, bhi) ==
    {blk \in (alo..ahi) \X (blo..bhi) \X (1..Len(a)) :
        /\ blk[1] + blk[3] - 1 <= ahi
        /\ blk[2] + blk[3] - 1 <= bhi
        /\ \A x \in 0..(blk[3] - 1) : a[blk[1] + x] = b[blk[2] + x]}

\* difflib find_longest_match: the longest block, earliest in a, then earliest in b.
LongestMatch(blocks) ==
    CHOOSE blk \in blocks :
        \A o \in blocks :
            \/ blk[3] > o[3]
            \/ blk[3] = o[3] /\ blk[1] < o[1]
            \/ blk[3] = o[3] /\ blk[1] = o[1] /\ blk[2] <= o[2]

\* difflib get_matching_blocks: total size of the blocks found by recursing to
\* the left and to the right of the longest match.
RECURSIVE MatchingSize(_, _, _, _, _, _)
MatchingSize(a, b, alo, ahi, blo, bhi) ==
    LET blocks == CommonBlocks(a, b, alo, ahi, blo, bhi)
    IN  IF blocks = {} THEN 0
        ELSE LET best == LongestMatch(blocks)
             IN  best[3]
                 + MatchingSize(a, b, alo, best[1] - 1, blo, best[2] - 1)
                 + MatchingSize(a, b, best[1] + best[3], ahi, best[2] + best[3], bhi)

\* A date proximity that rewards four to seven days more than two or three.
DateTermLateBonus(date_diff) ==
    IF date_diff = 0 THEN 30
    ELSE IF date_diff <= 1 THEN 25
    ELSE IF date_diff <= 3 THEN 5
    ELSE IF date_diff <= 7 THEN 15
    ELSE 0

\* Date proximity, in hundredths (30% weight).
DateTerm(date_diff) ==
    IF date_diff = 0 THEN 30
    ELSE IF date_diff <= 1 THEN 25
    ELSE IF date_diff <= 3 THEN 15
    ELSE IF date_diff <= 7 THEN 5
    ELSE 0

\* 1/10000 major units in one stored number 1: the code compares the itemized
\* total (major units) with the ledger amount (milliunits) as plain numbers.
DecimalScale == 10000

\* Amount match, in hundredths (40% weight).  a is |total_amount| and b is
\* |ynab.amount|, both as counts of 1/10000; amount_ratio = |a - b| / max(a, b).
AmountTerm(a, b) ==
    LET amount_diff == Abs(a - b)
        m == Max(a, b)
    IN  IF amount_diff = 0 THEN 40
        ELSE IF amount_diff <= m \div 100 THEN 35
        ELSE IF amount_diff <= m \div 20 THEN 25
        ELSE IF amount_diff <= m \div 10 THEN 15
        ELSE 0

\* raised: decimal division by zero when both amounts are zero.
_calculate_match_score(itemized, ynab) ==
    LET date_diff == Abs(itemized.transaction_date - ynab.date)
        itemized_amount == Abs(itemized.total_amount)
        ynab_amount == Abs(ynab.amount) * DecimalScale
        named == /\ itemized.merchant_name # None /\ itemized.merchant_name[1] # <<>>
                 /\ ynab.payee_name # None /\ ynab.payee_name[1] # <<>>
        a == IF named THEN Lower(itemized.merchant_name[1]) ELSE <<>>
        b == IF named THEN Lower(ynab.payee_name[1]) ELSE <<>>
        T == IF named THEN Len(a) + Len(b) ELSE 1
        M == IF named THEN MatchingSize(a, b, 1, Len(a), 1, Len(b)) ELSE 0
        num == (DateTerm(date_diff) + AmountTerm(itemized_amount, ynab_amount)) * T
                   + 30 * 2 * M
        den == 100 * T
    IN  IF Max(itemized_amount, ynab_amount) = 0
        THEN [raised |-> TRUE, num |-> 0, den |-> 1]
        ELSE [raised |-> FALSE, num |-> IF num > den THEN den ELSE num, den |-> den]

\* score >= th / 100 and score > th / 100
ScoreGE(score, th) == score.num * 100 >= th * score.den

ScoreGT(score, th) == score.num * 100 > th * score.den

ScoreLess(s1, s2) == s1.num * s2.den < s2.num * s1.den

----------------------------------------------------------------------------
(* Transaction matcher: candidate search (TransactionMatcher.find_matches)  *)
(*                                                                          *)
(* Tables are functions from primary key to row.  A ledger row is           *)
(* [ynab_id, date, amount, payee_name]; dates are day numbers.  An itemized *)
(* row is [transaction_date, total_amount, merchant_name,                   *)
(* ynab_transaction_id, match_status, match_confidence, match_method,       *)
(* source, source_transaction_id].                                          *)

DefaultDateTolerance == 3

\* amount_tolerance_percent = 0.05, held in percent
DefaultAmountTolerancePct == 5

\* find_matches keeps scores > 0.3
MinimumScore == 30

\* confidence_threshold = 0.8
DefaultConfidenceThreshold == 80

CeilDiv(n, k) == -((-n) \div k)

\* YNABTransactionDB.date >= start_date and <= end_date
InDateWindow(date, transaction_date, date_tolerance_days) ==
    /\ date >= transaction_date - date_tolerance_days
    /\ date <= transaction_date + date_tolerance_days

\* YNABTransactionDB.amount >= min_amount and <= max_amount, where
\* amount = abs(total_amount), amount_tolerance = amount * pct / 100,
\* min_amount = -(amount + amount_tolerance), max_amount = -(amount - amount_tolerance)
\* are numbers of major units and ynab_amount is the stored ledger number.
InAmountWindow(ynab_amount, total_amount, pct) ==
    LET amount == Abs(total_amount)
        most == amount * (100 + pct)
        least == amount * (100 - pct)
    IN  /\ -ynab_amount <= most \div (100 * DecimalScale)
        /\ -ynab_amount >= CeilDiv(least, 100 * DecimalScale)

RECURSIVE SelectRows(_, _, _, _)
\* The rows of the query result, in retrieval order.
SelectRows(order, itemized, date_tolerance_days, pct) ==
    IF order = <<>> THEN <<>>
    ELSE LET y == ynab_transactions[Head(order)]
             rest == SelectRows(Tail(order), itemized, date_tolerance_days, pct)
         IN  IF /\ InDateWindow(y.date, itemized.transaction_date, date_tolerance_days)
                /\ InAmountWindow(y.amount, itemized.total_amount, pct)
             THEN << Head(order) >> \o rest
             ELSE rest

RECURSIVE InsertByScore(_, _)
\* list.sort(key=score, reverse=True) is stable: equal scores keep their order.
InsertByScore(sorted, m) ==
    IF sorted = <<>> THEN << m >>
    ELSE IF ScoreLess(Head(sorted).score, m.score) THEN << m >> \o sorted
    ELSE << Head(sorted) >> \o InsertByScore(Tail(sorted), m)

RECURSIVE SortByScore(_)
SortByScore(ms) ==
    IF ms = <<>> THEN <<>>
    ELSE InsertByScore(SortByScore(SubSeq(ms, 1, Len(ms) - 1)), ms[Len(ms)])

RECURSIVE ScoreCandidates(_, _)
\* The loop over the candidates: keep (candidate, score) when score > 0.3.
ScoreCandidates(candidates, itemized) ==
    IF candidates = <<>> THEN <<>>
    ELSE LET score == _calculate_match_score(itemized, ynab_transactions[Head(candidates)])
             rest == ScoreCandidates(Tail(candidates), itemized)
         IN  IF ScoreGT(score, MinimumScore)
             THEN << [ynab_transaction |-> Head(candidates),
                      score |-> [num |-> score.num, den |-> score.den]] >> \o rest
             ELSE rest

\* find_matches that returns the kept candidates as the loop appended them.
find_matches_without_sort(itemized, date_tolerance_days, pct, order) ==
    LET candidates == SelectRows(order, itemized, date_tolerance_days, pct)
        raised == \E k \in 1..Len(candidates) :
                      _calculate_match_score(itemized,
                                             ynab_transactions[candidates[k]]).raised
    IN  [raised |-> raised,
         candidates |-> candidates,
         matches |-> IF raised THEN <<>>
                     ELSE ScoreCandidates(candidates, itemized)]

\* order: the order in which the store returns its ledger rows (the query has
\* no ORDER BY).  raised: a candidate's score could not be computed.
find_matches(itemized, date_tolerance_days, pct, order) ==
    LET candidates == SelectRows(order, itemized, date_tolerance_days, pct)
        raised == \E k \in 1..Len(candidates) :
                      _calculate_match_score(itemized,
                                             ynab_transactions[candidates[k]]).raised
    IN  [raised |-> raised,
         candidates |-> candidates,
         matches |-> IF raised THEN <<>>
                     ELSE SortByScore(ScoreCandidates(candidates, itemized))]

\* All orders in which the rows with keys in S can come back.
Orders(S) ==
    {f \in [1..Cardinality(S) -> S] : \A j, k \in 1..Cardinality(S) : f[j] = f[k] => j = k}

\* The matcher's calls that only read the store.
CalculateMatchScore(i, y) ==
    /\ last' = [op |-> "_calculate_match_score", itemized |-> i, ynab |-> y,
                score |-> _calculate_match_score(itemized_transactions[i],
                                                 ynab_transactions[y])]
    /\ UNCHANGED << buildVars, ynab_transactions, itemized_transactions,
                    transaction_items, transaction_matches, csv_rows, csv_fieldnames, api_requests, uuid_counter >>

FindMatches(i, date_tolerance_days, pct, order) ==
    /\ last' = [op |-> "find_matches", itemized |-> i,
                date_tolerance_days |-> date_tolerance_days, pct |-> pct,
                result |-> find_matches(itemized_transactions[i],
                                        date_tolerance_days, pct, order)]
    /\ UNCHANGED << buildVars, ynab_transactions, itemized_transactions,
                    transaction_items, transaction_matches, csv_rows, csv_fieldnames, api_requests, uuid_counter >>

----------------------------------------------------------------------------
(* Inputs of the candidate search: one itemized row, two ledger rows        *)

Names == {None, Some(<< "a", "b" >>), Some(<< "A", "B" >>), Some(<< "b" >>)}

LedgerDates == {7, 10, 11, 14, 18}

\* milliunits: 0, -0.100, -0.101, -0.105, -0.106, -100.000
LedgerAmounts == {0, -100, -101, -105, -106, -100000}

\* 0.00 and 100.00
ItemizedTotals == {0, 1000000}

AmountTolerancePcts == {DefaultAmountTolerancePct, 10}

NewItemizedRow(date, total, merchant, source, source_id) ==
    [transaction_date |-> date, total_amount |-> total, merchant_name |-> merchant,
     ynab_transaction_id |-> NULL, match_status |-> "unmatched",
     match_confidence |-> None, match_method |-> NULL,
     source |-> source, source_transaction_id |-> source_id]

LedgerRow(ynab_id, date, amount, payee) ==
    [ynab_id |-> ynab_id, date |-> date, amount |-> amount, payee_name |-> payee]

InitFind ==
    /\ build_call = NoBuildCall
    /\ build_result = NoBuildResult
    /\ \E d1, d2 \in LedgerDates, a1, a2 \in LedgerAmounts,
          p1 \in Names \ {Some(<< "a", "b" >>)}, p2 \in {None, Some(<< "b" >>)} :
           ynab_transactions = [y \in {"y1", "y2"} |->
                                   IF y = "y1" THEN LedgerRow("n1", d1, a1, p1)
                                   ELSE LedgerRow("n2", d2, a2, p2)]
    /\ \E t \in ItemizedTotals, m \in {None, Some(<< "a", "b" >>)} :
           itemized_transactions = [i \in {"i1"} |->
                                       NewItemizedRow(10, t, m, "amazon", "o1")]
    /\ transaction_items = {}
    /\ transaction_matches = << >>
    /\ csv_rows = << >>
    /\ csv_fieldnames = {}
    /\ api_requests = << >>
    /\ uuid_counter = 0
    /\ last = [op |-> "none"]

NextFind ==
    \/ \E i \in DOMAIN itemized_transactions, y \in DOMAIN ynab_transactions :
           CalculateMatchScore(i, y)
    \/ \E i \in DOMAIN itemized_transactions, pct \in AmountTolerancePcts,
          order \in Orders(DOMAIN ynab_transactions) :
           FindMatches(i, DefaultDateTolerance, pct, order)

SpecFind == InitFind /\ [][NextFind]_vars

----------------------------------------------------------------------------
(* Transaction matcher: match records, acceptance and the auto-match sweep  *)
(*                                                                          *)
(* A match row is [ynab_transaction_id, itemized_transaction_id,            *)
(* match_score, match_method, status, reviewed_by].  A relationship         *)
(* attribute (match.itemized_transaction) is the row its foreign key names. *)
(* Every call runs in a unit of work of its own (DatabaseManager.get_session): *)
(* an exception rolls the store back to what it was before the call.        *)

\* id = f"match_{ynab_transaction.id}_{itemized_transaction.id}"
MatchId(y, i) == << y, i >>

create_match(y, i, match_score, match_method, reviewed_by) ==
    [ynab_transaction_id |-> y,
     itemized_transaction_id |-> i,
     match_score |-> match_score,
     match_method |-> match_method,
     status |-> IF reviewed_by = NULL THEN "candidate" ELSE "accepted",
     reviewed_by |-> reviewed_by]

\* accept_match that forgets to copy the score to the itemized row.
accept_match_without_confidence(matches, itemized, m, reviewed_by) ==
    LET match == matches[m]
    IN  [transaction_matches |->
             [matches EXCEPT ![m] = [@ EXCEPT !.status = "accepted",
                                              !.reviewed_by = reviewed_by]],
         itemized_transactions |->
             [itemized EXCEPT ![match.itemized_transaction_id] =
                 [@ EXCEPT !.ynab_transaction_id = match.ynab_transaction_id,
                           !.match_status = "matched",
                           !.match_method = match.match_method]]]

\* accept_match that updates the itemized row but leaves the match's status.
accept_match_without_status(matches, itemized, m, reviewed_by) ==
    LET match == matches[m]
    IN  [transaction_matches |->
             [matches EXCEPT ![m] = [@ EXCEPT !.reviewed_by = reviewed_by]],
         itemized_transactions |->
             [itemized EXCEPT ![match.itemized_transaction_id] =
                 [@ EXCEPT !.ynab_transaction_id = match.ynab_transaction_id,
                           !.match_status = "matched",
                           !.match_confidence = Some(match.match_score),
                           !.match_method = match.match_method]]]

\* reject_match that also returns the itemized row to the unmatched pool.
reject_match_resetting(matches, itemized, m, reviewed_by) ==
    [transaction_matches |->
         [matches EXCEPT ![m] = [@ EXCEPT !.status = "rejected",
                                          !.reviewed_by = reviewed_by]],
     itemized_transactions |->
         [itemized EXCEPT ![matches[m].itemized_transaction_id] =
             [@ EXCEPT !.ynab_transaction_id = NULL,
                       !.match_status = "unmatched"]]]

\* The two tables after accept_match on the match row with key m.
accept_match(matches, itemized, m, reviewed_by) ==
    LET match == matches[m]
    IN  [transaction_matches |->
             [matches EXCEPT ![m] = [@ EXCEPT !.status = "accepted",
                                              !.reviewed_by = reviewed_by]],
         itemized_transactions |->
             [itemized EXCEPT ![match.itemized_transaction_id] =
                 [@ EXCEPT !.ynab_transaction_id = match.ynab_transaction_id,
                           !.match_status = "matched",
                           !.match_confidence = Some(match.match_score),
                           !.match_method = match.match_method]]]

\* reject_match that also forgets the confidence and the method of the link.
reject_match_clearing_confidence(matches, itemized, m, reviewed_by) ==
    [transaction_matches |->
         [matches EXCEPT ![m] = [@ EXCEPT !.status = "rejected",
                                          !.reviewed_by = reviewed_by]],
     itemized_transactions |->
         [itemized EXCEPT ![matches[m].itemized_transaction_id] =
             [@ EXCEPT !.match_confidence = None,
                       !.match_method = NULL]]]

reject_match(matches, itemized, m, reviewed_by) ==
    [transaction_matches |->
         [matches EXCEPT ![m] = [@ EXCEPT !.status = "rejected",
                                          !.reviewed_by = reviewed_by]],
     itemized_transactions |-> itemized]

get_unmatched_itemized_transactions ==
    {i \in DOMAIN itemized_transactions :
        itemized_transactions[i].match_status = "unmatched"}

\* The element of a one-element set.  {F(v) : v \in {e}} computes e once and
\* hands its value to F.
TheOnly(S) == CHOOSE x \in S : TRUE

\* One pass of the loop body for the unmatched row i, given what find_matches
\* returned.  acc holds the session's tables, the keys of the matches
\* accepted so far, and whether the session now holds a new match row whose
\* key is already stored (conflict) or a score could not be computed (raised).
SweepFound(acc, i, found, confidence_threshold) ==
    LET top == found.matches[1]
        m == MatchId(top.ynab_transaction, i)
        added == (m :> create_match(top.ynab_transaction, i, top.score,
                                    "automatic", NULL)) @@ acc.transaction_matches
        accepted == accept_match(added, acc.itemized_transactions, m, "system")
    IN  IF found.raised THEN [acc EXCEPT !.raised = TRUE]
        ELSE IF found.matches = <<>> \/ ~ScoreGE(top.score, confidence_threshold)
        THEN acc
        ELSE IF m \in DOMAIN acc.transaction_matches
        THEN [acc EXCEPT !.conflict = TRUE, !.auto_matches = @ \cup {m}]
        ELSE [acc EXCEPT !.transaction_matches = accepted.transaction_matches,
                         !.itemized_transactions = accepted.itemized_transactions,
                         !.auto_matches = @ \cup {m}]

SweepStep(acc, i, confidence_threshold, order) ==
    TheOnly({SweepFound(acc, i, found, confidence_threshold) :
                 found \in {find_matches(acc.itemized_transactions[i], DefaultDateTolerance,
                                         DefaultAmountTolerancePct, order)}})

RECURSIVE SweepLoop(_, _, _, _)
\* The loop of auto_match_transactions over the unmatched rows still to visit.
\* The order of the visits does not change the tables the loop ends with.
SweepLoop(todo, acc, confidence_threshold, order) ==
    IF todo = {} \/ acc.raised THEN acc
    ELSE LET i == CHOOSE x \in todo : TRUE
         IN  TheOnly({SweepLoop(todo \ {i}, next, confidence_threshold, order) :
                          next \in {SweepStep(acc, i, confidence_threshold, order[i])}})

auto_match_transactions(confidence_threshold, order) ==
    SweepLoop(get_unmatched_itemized_transactions,
              [transaction_matches |-> transaction_matches,
               itemized_transactions |-> itemized_transactions,
               auto_matches |-> {}, conflict |-> FALSE, raised |-> FALSE],
              confidence_threshold, order)

matcherFrame == << buildVars, ynab_transactions, transaction_items, csv_rows, csv_fieldnames, api_requests, uuid_counter >>

\* create_match followed by the commit of its unit of work.  A second row with
\* a stored primary key fails the INSERT and the unit of work rolls back.
CreateMatch(y, i, match_method, reviewed_by) ==
    LET score == _calculate_match_score(itemized_transactions[i], ynab_transactions[y])
        m == MatchId(y, i)
        conflict == m \in DOMAIN transaction_matches
    IN  /\ ~score.raised
        /\ transaction_matches' =
               IF conflict THEN transaction_matches
               ELSE (m :> create_match(y, i, [num |-> score.num, den |-> score.den],
                                       match_method, reviewed_by)) @@ transaction_matches
        /\ last' = [op |-> "create_match", raised |-> conflict]
        /\ UNCHANGED << matcherFrame, itemized_transactions >>

AcceptMatch(m, reviewed_by) ==
    LET after == accept_match(transaction_matches, itemized_transactions, m, reviewed_by)
    IN  /\ m \in DOMAIN transaction_matches
        /\ transaction_matches' = after.transaction_matches
        /\ itemized_transactions' = after.itemized_transactions
        /\ last' = [op |-> "accept_match", raised |-> FALSE]
        /\ UNCHANGED matcherFrame

RejectMatch(m, reviewed_by) ==
    LET after == reject_match(transaction_matches, itemized_transactions, m, reviewed_by)
    IN  /\ m \in DOMAIN transaction_matches
        /\ transaction_matches' = after.transaction_matches
        /\ itemized_transactions' = after.itemized_transactions
        /\ last' = [op |-> "reject_match", raised |-> FALSE]
        /\ UNCHANGED matcherFrame

\* A sweep whose acceptances are written as they are made: what the loop did
\* before it failed stays in the store.
AutoMatchKeepingPartial(confidence_threshold, order) ==
    \E swept \in {auto_match_transactions(confidence_threshold, order)} :
        /\ transaction_matches' = swept.transaction_matches
        /\ itemized_transactions' = swept.itemized_transactions
        /\ last' = [op |-> "auto_match_transactions",
                    raised |-> swept.raised \/ swept.conflict]
        /\ UNCHANGED matcherFrame

\* The sweep and its commit; if the commit fails, or a score raised, nothing
\* of the sweep is kept.
AutoMatch(confidence_threshold, order) ==
    \E swept \in {auto_match_transactions(confidence_threshold, order)} :
        LET failed == swept.raised \/ swept.conflict
        IN  /\ transaction_matches' =
                   IF failed THEN transaction_matches ELSE swept.transaction_matches
            /\ itemized_transactions' =
                   IF failed THEN itemized_transactions ELSE swept.itemized_transactions
            /\ last' = [op |-> "auto_match_transactions", raised |-> failed]
            /\ UNCHANGED matcherFrame

----------------------------------------------------------------------------
(* The matcher over small stores: two ledger rows and one itemized row, or   *)
(* one ledger row and two itemized rows                                     *)

Reviewers == {NULL, "user"}

ConfidenceThresholds == {DefaultConfidenceThreshold, 90}

\* Ledger rows.  Against an itemized row of 100.00 on day 10 with merchant
\* "ab" the code scores them 1.0 (amount -0.100 on day 10), 0.8 (-0.105 a day
\* later) and 0.55 (-0.100 three days later, no payee); the ledger's
\* -100.000 on day 10 is the same purchase in milliunits.
LedgerSame(ynab_id) == LedgerRow(ynab_id, 10, -100, Some(<< "A", "B" >>))

LedgerNear(ynab_id) == LedgerRow(ynab_id, 11, -105, Some(<< "A", "B" >>))

LedgerLate(ynab_id) == LedgerRow(ynab_id, 13, -100, None)

LedgerMilliunits(ynab_id) == LedgerRow(ynab_id, 10, -100000, Some(<< "A", "B" >>))

ItemizedNamed(source_id) ==
    NewItemizedRow(10, 1000000, Some(<< "a", "b" >>), "amazon", source_id)

ItemizedUnnamed(source_id) == NewItemizedRow(10, 1000000, None, "amazon", source_id)

\* A zero ledger amount and a zero itemized total: their score cannot be computed.
LedgerZero(ynab_id) == LedgerRow(ynab_id, 10, 0, None)

ItemizedZero(source_id) == NewItemizedRow(10, 0, None, "manual", source_id)

MatcherStores ==
    {[ynab |-> ("y1" :> r1) @@ ("y2" :> r2), itemized |-> ("i1" :> ItemizedNamed("o1"))] :
        r1 \in {LedgerSame("n1"), LedgerMilliunits("n1")},
        r2 \in {LedgerSame("n2"), LedgerNear("n2"), LedgerLate("n2")}}
    \cup
    {[ynab |-> ("y1" :> r1), itemized |-> ("i1" :> ItemizedNamed("o1")) @@ ("i2" :> r2)] :
        r1 \in {LedgerSame("n1"), LedgerNear("n1")},
        r2 \in {ItemizedNamed("o2"), ItemizedUnnamed("o2")}}
    \cup
    {[ynab |-> ("y1" :> LedgerSame("n1")) @@ ("y2" :> LedgerZero("n2")),
      itemized |-> ("i1" :> ItemizedNamed("o1")) @@ ("i2" :> ItemizedZero("o2"))]}

Init ==
    /\ build_call = NoBuildCall
    /\ build_result = NoBuildResult
    /\ \E store \in MatcherStores :
           /\ ynab_transactions = store.ynab
           /\ itemized_transactions = store.itemized
    /\ transaction_items = {}
    /\ transaction_matches = << >>
    /\ csv_rows = << >>
    /\ csv_fieldnames = {}
    /\ api_requests = << >>
    /\ uuid_counter = 0
    /\ last = [op |-> "none"]

Next ==
    \/ \E i \in DOMAIN itemized_transactions, order \in Orders(DOMAIN ynab_transactions) :
           FindMatches(i, DefaultDateTolerance, DefaultAmountTolerancePct, order)
    \/ \E y \in DOMAIN ynab_transactions, i \in DOMAIN itemized_transactions,
          reviewed_by \in Reviewers :
           CreateMatch(y, i, "manual", reviewed_by)
    \/ \E m \in DOMAIN transaction_matches : AcceptMatch(m, "user")
    \/ \E m \in DOMAIN transaction_matches : RejectMatch(m, "user")
    \/ \E confidence_threshold \in ConfidenceThresholds,
          order \in [get_unmatched_itemized_transactions
                         -> Orders(DOMAIN ynab_transactions)] :
           AutoMatch(confidence_threshold, order)

Spec == Init /\ [][Next]_vars

----------------------------------------------------------------------------------------------------------------------------------------
(* Amazon import: parse_csv_file, then save_itemized_transaction for every  *)
(* parsed order (cli.import_amazon)                                         *)
(*                                                                          *)
(* A CSV row is [order_id, order_date, website, title, unit_price,          *)
(* quantity, item_tax, item_total].  order_id and title are the texts of    *)
(* their fields; NULL is a field the line does not have (csv.DictReader     *)
(* fills it with None).  The text of a date or of a number is Some(v) when  *)
(* it parses to v and None when it does not parse; amounts are counts of    *)
(* 1/10000.  A model object's id is a fresh uuid4: the next number of       *)
(* uuid_counter.                                                            *)

REQUIRED_COLUMNS ==
    {"Order Date", "Order ID", "Title", "Purchase Price Per Unit", "Quantity",
     "Item Subtotal", "Item Subtotal Tax", "Item Total"}

DefaultMerchant == << "A", "m", "a", "z", "o", "n", ".", "c", "o", "m" >>

\* str.strip() on the texts of the model
Strip(text) == IF text = " " THEN "" ELSE text

RECURSIVE GroupOrder(_, _)
\* The keys of the grouping dict, in insertion order; rows with an empty
\* Order ID are skipped.
GroupOrder(rows, seen) ==
    IF rows = <<>> THEN <<>>
    ELSE LET order_id == Strip(Head(rows).order_id)
         IN  IF order_id = "" \/ order_id \in seen THEN GroupOrder(Tail(rows), seen)
             ELSE << order_id >> \o GroupOrder(Tail(rows), seen \cup {order_id})

\* raised: row.get("Order ID", "") is None for a line without the field, and
\* None has no strip().
_group_items_by_order(rows) ==
    IF \E k \in 1..Len(rows) : rows[k].order_id = NULL
    THEN [raised |-> TRUE, grouped |-> <<>>]
    ELSE [raised |-> FALSE,
          grouped |->
              [k \in 1..Len(GroupOrder(rows, {})) |->
                  [order_id |-> GroupOrder(rows, {})[k],
                   order_items |->
                       SelectSeq(rows, LAMBDA r :
                                     Strip(r.order_id) = GroupOrder(rows, {})[k])]]]

\* _parse_item that takes the line total of the row as the item's amount.
_parse_item_with_line_total(item_row) ==
    IF \/ item_row.title = NULL
       \/ Strip(item_row.title) = ""
       \/ None \in {item_row.unit_price, item_row.quantity, item_row.item_tax,
                    item_row.item_total}
    THEN [raised |-> TRUE]
    ELSE [raised |-> FALSE,
          item |-> [name |-> Strip(item_row.title), amount |-> item_row.item_total[1],
                    quantity |-> item_row.quantity[1],
                    tax_amount |-> item_row.item_tax[1]],
          item_total |-> item_row.item_total[1],
          item_tax |-> item_row.item_tax[1]]

\* raised: no title, or a price, quantity, tax or total that is no number.
_parse_item(item_row) ==
    IF \/ item_row.title = NULL
       \/ Strip(item_row.title) = ""
       \/ None \in {item_row.unit_price, item_row.quantity, item_row.item_tax,
                    item_row.item_total}
    THEN [raised |-> TRUE]
    ELSE [raised |-> FALSE,
          item |-> [name |-> Strip(item_row.title), amount |-> item_row.unit_price[1],
                    quantity |-> item_row.quantity[1],
                    tax_amount |-> item_row.item_tax[1]],
          item_total |-> item_row.item_total[1],
          item_tax |-> item_row.item_tax[1]]

RECURSIVE SumField(_, _)
SumField(parsed, field) ==
    IF parsed = <<>> THEN 0 ELSE Head(parsed)[field] + SumField(Tail(parsed), field)

\* The ItemizedTransaction of one order; it carries no id of the order, so
\* the model object gets a fresh one.  raised: the first row's date does not
\* parse, or an item does not parse.
_parse_order(order_id, order_items) ==
    LET parsed == [k \in 1..Len(order_items) |-> _parse_item(order_items[k])]
    IN  IF \/ order_items[1].order_date = None
           \/ \E k \in 1..Len(order_items) : parsed[k].raised
        THEN [raised |-> TRUE]
        ELSE [raised |-> FALSE,
              transaction |->
                  [transaction_date |-> order_items[1].order_date[1],
                   total_amount |-> SumField(parsed, "item_total"),
                   total_tax |-> SumField(parsed, "item_tax"),
                   merchant_name |-> IF order_items[1].website = <<>> THEN DefaultMerchant
                                     ELSE order_items[1].website,
                   items |-> [k \in 1..Len(order_items) |-> parsed[k].item],
                   source |-> "amazon",
                   source_transaction_id |-> order_id]]

\* parse_csv_file that logs an order it cannot parse and goes on to the next.
parse_csv_file_skipping_orders(fieldnames, rows) ==
    LET groups == _group_items_by_order(rows)
        orders == [k \in 1..Len(groups.grouped) |->
                      _parse_order(groups.grouped[k].order_id,
                                   groups.grouped[k].order_items)]
        good == SelectSeq(orders, LAMBDA o : ~o.raised)
    IN  IF ~(REQUIRED_COLUMNS \subseteq fieldnames) \/ groups.raised
        THEN [raised |-> TRUE, transactions |-> <<>>]
        ELSE [raised |-> FALSE,
              transactions |-> [k \in 1..Len(good) |-> good[k].transaction]]

\* raised: a required column is missing, the grouping raised or an order
\* raised; otherwise the transactions of all orders.
parse_csv_file(fieldnames, rows) ==
    LET groups == _group_items_by_order(rows)
        orders == [k \in 1..Len(groups.grouped) |->
                      _parse_order(groups.grouped[k].order_id,
                                   groups.grouped[k].order_items)]
    IN  IF \/ ~(REQUIRED_COLUMNS \subseteq fieldnames)
           \/ groups.raised
           \/ \E k \in 1..Len(orders) : orders[k].raised
        THEN [raised |-> TRUE, transactions |-> <<>>]
        ELSE [raised |-> FALSE,
              transactions |-> [k \in 1..Len(orders) |-> orders[k].transaction]]

----------------------------------------------------------------------------
(* Persistence facade (database/manager.py)                                 *)
(*                                                                          *)
(* A ledger model object is [id, ynab_id, date, amount, payee_name]; an     *)
(* itemized model object is [id, transaction_date, total_amount,            *)
(* merchant_name, source, source_transaction_id, items, ynab_transaction]   *)
(* with match_status "unmatched" and no confidence or method, as the model  *)
(* class defaults them.  Every model object of this module carries a        *)
(* transaction_date and a total_amount, so the fall-backs of                *)
(* manager.py:134-153 for them are not taken.  Tables are the three tables  *)
(* [ynab_transactions, itemized_transactions, transaction_items] of one     *)
(* unit of work; raised: the unit of work failed and is rolled back.        *)

\* session.add(row) and the flush that writes it
Inserted(table, key, row) ==
    [k \in DOMAIN table \cup {key} |-> IF k = key THEN row ELSE table[k]]

\* An upsert whose update goes through: every field of the model object is
\* copied to the stored row, its id (the primary key) included.
_save_ynab_transaction_rekeying(ynab_table, transaction) ==
    LET existing == {k \in DOMAIN ynab_table :
                        ynab_table[k].ynab_id = transaction.ynab_id}
        row == LedgerRow(transaction.ynab_id, transaction.date, transaction.amount,
                         transaction.payee_name)
    IN  IF transaction.id \in DOMAIN ynab_table \ existing
        THEN [raised |-> TRUE, ynab_transactions |-> ynab_table, id |-> NULL]
        ELSE [raised |-> FALSE,
              ynab_transactions |->
                  [k \in (DOMAIN ynab_table \ existing) \cup {transaction.id} |->
                      IF k = transaction.id THEN row ELSE ynab_table[k]],
              id |-> transaction.id]

\* Upsert by ynab_id.  update_timestamp() is a method of the model classes
\* (models/base.py:34) and not of the rows of database/models.py, so the call
\* on the stored row raises AttributeError and the unit of work is rolled
\* back.  raised: that, or the insert's primary key is already used.
_save_ynab_transaction_in_session(ynab_table, transaction) ==
    LET existing == {k \in DOMAIN ynab_table :
                        ynab_table[k].ynab_id = transaction.ynab_id}
        row == LedgerRow(transaction.ynab_id, transaction.date, transaction.amount,
                         transaction.payee_name)
    IN  IF existing # {} \/ transaction.id \in DOMAIN ynab_table
        THEN [raised |-> TRUE, ynab_transactions |-> ynab_table, id |-> NULL]
        ELSE [raised |-> FALSE,
              ynab_transactions |-> Inserted(ynab_table, transaction.id, row),
              id |-> transaction.id]

\* save_ynab_transaction(transaction) in a unit of work of its own
save_ynab_transaction(tables, transaction) ==
    LET saved == _save_ynab_transaction_in_session(tables.ynab_transactions, transaction)
    IN  [raised |-> saved.raised,
         tables |-> [tables EXCEPT !.ynab_transactions = saved.ynab_transactions]]

StoredItems(id, items) ==
    {[transaction_id |-> id, position |-> k, item |-> items[k]] : k \in 1..Len(items)}

\* The columns of the itemized row written from the model object.
ItemizedColumns(itemized, ynab_transaction_id, source) ==
    [NewItemizedRow(itemized.transaction_date[1], itemized.total_amount[1],
                    itemized.merchant_name, source, itemized.source_transaction_id)
        EXCEPT !.ynab_transaction_id = ynab_transaction_id]

\* A save without the rollback: the ledger row flushed before the itemized
\* part failed stays in the store.
save_itemized_transaction_keeping_ledger(tables, itemized) ==
    LET ynab_db == IF itemized.ynab_transaction = None
                   THEN [raised |-> FALSE, ynab_transactions |-> tables.ynab_transactions,
                         id |-> NULL]
                   ELSE _save_ynab_transaction_in_session(tables.ynab_transactions,
                                                          itemized.ynab_transaction[1])
        id == itemized.id
        existing == id \in DOMAIN tables.itemized_transactions
        source == IF itemized.source = NULL THEN "manual" ELSE itemized.source
    IN  IF ynab_db.raised
        THEN [raised |-> TRUE, tables |-> tables]
        ELSE IF existing
        THEN [raised |-> TRUE,
              tables |-> [tables EXCEPT !.ynab_transactions = ynab_db.ynab_transactions]]
        ELSE [raised |-> FALSE,
              tables |->
                  [ynab_transactions |-> ynab_db.ynab_transactions,
                   itemized_transactions |->
                       Inserted(tables.itemized_transactions, id,
                                ItemizedColumns(itemized, ynab_db.id, source)),
                   transaction_items |->
                       tables.transaction_items \cup StoredItems(id, itemized.items)]]

\* The linked ledger transaction is saved first.  A row with the model
\* object's id is then updated, and that raises at update_timestamp() as
\* above, before its items are replaced; without such a row one is inserted
\* with the items of the model object, source defaulting to "manual".
\* raised: the unit of work failed and nothing of it is stored.
save_itemized_transaction(tables, itemized) ==
    LET ynab_db == IF itemized.ynab_transaction = None
                   THEN [raised |-> FALSE, ynab_transactions |-> tables.ynab_transactions,
                         id |-> NULL]
                   ELSE _save_ynab_transaction_in_session(tables.ynab_transactions,
                                                          itemized.ynab_transaction[1])
        id == itemized.id
        existing == id \in DOMAIN tables.itemized_transactions
        source == IF itemized.source = NULL THEN "manual" ELSE itemized.source
    IN  IF ynab_db.raised \/ existing
        THEN [raised |-> TRUE, tables |-> tables]
        ELSE [raised |-> FALSE,
              tables |->
                  [ynab_transactions |-> ynab_db.ynab_transactions,
                   itemized_transactions |->
                       Inserted(tables.itemized_transactions, id,
                                ItemizedColumns(itemized, ynab_db.id, source)),
                   transaction_items |->
                       tables.transaction_items \cup StoredItems(id, itemized.items)]]

\* A delete without the cascade to the items
delete_itemized_transaction_keeping_items(tables, transaction_id) ==
    IF transaction_id \in DOMAIN tables.itemized_transactions
    THEN [returned |-> TRUE,
          tables |->
              [tables EXCEPT
                  !.itemized_transactions =
                      [k \in DOMAIN @ \ {transaction_id} |-> @[k]]]]
    ELSE [returned |-> FALSE, tables |-> tables]

\* The row and, by the cascade of its items relationship, its items are
\* deleted; returned: whether the row existed.
delete_itemized_transaction(tables, transaction_id) ==
    IF transaction_id \in DOMAIN tables.itemized_transactions
    THEN [returned |-> TRUE,
          tables |->
              [tables EXCEPT
                  !.itemized_transactions =
                      [k \in DOMAIN @ \ {transaction_id} |-> @[k]],
                  !.transaction_items =
                      {it \in @ : it.transaction_id # transaction_id}]]
    ELSE [returned |-> FALSE, tables |-> tables]

Tables ==
    [ynab_transactions |-> ynab_transactions,
     itemized_transactions |-> itemized_transactions,
     transaction_items |-> transaction_items]

----------------------------------------------------------------------------
(* The import command and the inputs of the Amazon import                   *)

\* str(uuid4()) of the n-th uuid drawn (models/base.py:13)
Uuid(n) == << "u1", "u2", "u3", "u4", "u5", "u6", "u7", "u8" >>[n]

RECURSIVE SaveAll(_, _, _)
\* The loop "for tx in transactions: db_manager.save_itemized_transaction(tx)";
\* the k-th parsed transaction has the uuid first_id + k - 1.  A save that fails is
\* logged and skipped.
SaveAll(tables, transactions, first_id) ==
    IF transactions = <<>> THEN tables
    ELSE LET tx == [id |-> Uuid(first_id), ynab_transaction |-> None,
                    transaction_date |-> Some(Head(transactions).transaction_date),
                    total_amount |-> Some(Head(transactions).total_amount),
                    merchant_name |-> Some(Head(transactions).merchant_name),
                    source |-> Head(transactions).source,
                    source_transaction_id |-> Head(transactions).source_transaction_id,
                    items |-> Head(transactions).items]
         IN  TheOnly({SaveAll(saved.tables, Tail(transactions), first_id + 1) :
                          saved \in {save_itemized_transaction(tables, tx)}})

\* Fresh ids the model hands out
MaxUuids == 4

\* _group_items_by_order on the rows of the file
GroupItemsByOrder ==
    /\ last' = [op |-> "_group_items_by_order", result |-> _group_items_by_order(csv_rows)]
    /\ UNCHANGED << buildVars, ynab_transactions, itemized_transactions, transaction_items,
                    transaction_matches, csv_rows, csv_fieldnames, api_requests, uuid_counter >>

\* parse_csv_file on the file
ParseCsvFile ==
    /\ last' = [op |-> "parse_csv_file", result |-> parse_csv_file(csv_fieldnames, csv_rows)]
    /\ UNCHANGED << buildVars, ynab_transactions, itemized_transactions, transaction_items,
                    transaction_matches, csv_rows, csv_fieldnames, api_requests, uuid_counter >>

\* import_amazon --yes: a parse that raises ends the command before anything
\* is saved.
ImportAmazon ==
    \E parsed \in {parse_csv_file(csv_fieldnames, csv_rows)} :
        \E saved \in {SaveAll(Tables, parsed.transactions, uuid_counter + 1)} :
            /\ uuid_counter + Len(parsed.transactions) <= MaxUuids
            /\ ynab_transactions' = saved.ynab_transactions
            /\ itemized_transactions' = saved.itemized_transactions
            /\ transaction_items' = saved.transaction_items
            /\ uuid_counter' = uuid_counter + Len(parsed.transactions)
            /\ last' = [op |-> "import_amazon", raised |-> parsed.raised]
            /\ UNCHANGED << buildVars, transaction_matches, csv_rows, csv_fieldnames, api_requests >>

CsvRow(order_id, order_date, website, title, amounts, quantity) ==
    [order_id |-> order_id, order_date |-> order_date, website |-> website,
     title |-> title, unit_price |-> amounts[1], quantity |-> quantity,
     item_tax |-> amounts[2], item_total |-> amounts[3]]

\* (unit price, tax, total) of a row: 10.00 + 0.00, 25.00 + 0.99
RowAmounts ==
    {<< Some(100000), Some(0), Some(100000) >>,
     << Some(250000), Some(9900), Some(259900) >>}

OrderDates == {10, 11}

\* Rows of two orders; rows without an order id (empty, blank, field missing);
\* rows with a date, a title, an amount or a quantity that does not parse;
\* a row of two units (2 x 15.00 + 2.40 = 32.40).
CsvRows ==
    {CsvRow(o, Some(d), <<>>, "Item 1", a, Some(1)) :
        o \in {"o1", "o2"}, d \in OrderDates, a \in RowAmounts}
    \cup {CsvRow(o, Some(10), << "a", "b" >>, "Item 2",
                 << Some(100000), Some(0), Some(100000) >>, Some(1)) :
              o \in {"", " ", NULL, "o1"}}
    \cup {CsvRow("o1", None, <<>>, "Item 1",
                 << Some(100000), Some(0), Some(100000) >>, Some(1)),
          CsvRow("o2", Some(10), <<>>, " ",
                 << Some(100000), Some(0), Some(100000) >>, Some(1)),
          CsvRow("o2", Some(10), <<>>, "Item 1",
                 << Some(100000), Some(0), None >>, Some(1)),
          CsvRow("o1", Some(10), <<>>, "Item 1",
                 << Some(100000), Some(0), Some(100000) >>, None),
          CsvRow("o1", Some(10), <<>>, "Item 2",
                 << Some(150000), Some(24000), Some(324000) >>, Some(2))}

Headers == {REQUIRED_COLUMNS, REQUIRED_COLUMNS \ {"Item Total"}}

MaxRows == 2

InitImport ==
    /\ build_call = NoBuildCall
    /\ build_result = NoBuildResult
    /\ ynab_transactions = << >>
    /\ itemized_transactions = << >>
    /\ transaction_items = {}
    /\ transaction_matches = << >>
    /\ csv_rows \in UNION {[1..n -> CsvRows] : n \in 1..MaxRows}
    /\ csv_fieldnames \in Headers
    /\ api_requests = << >>
    /\ uuid_counter = 0
    /\ last = [op |-> "none"]

NextImport ==
    \/ GroupItemsByOrder
    \/ ParseCsvFile
    \/ ImportAmazon

SpecImport == InitImport /\ [][NextImport]_vars

----------------------------------------------------------------------------
(* The persistence facade called directly                                   *)
(*                                                                          *)
(* A caller builds model objects and saves them.  A model object gets a     *)
(* fresh uuid4 id when it is built (models/base.py:13) unless the caller    *)
(* passes one: an itemized model object read back from the store carries    *)
(* the id of its row (manager.py:389), a ledger model object never does     *)
(* (manager.py:340, ynab/client.py:195).  Ids are Uuid(1), Uuid(2), ... in  *)
(* the order they are drawn, at most MaxStoreUuids of them.                 *)

LedgerModel(id, ynab_id, amount) ==
    [id |-> id, ynab_id |-> ynab_id, date |-> 10, amount |-> amount, payee_name |-> None]

ItemizedModel(id, ynab_transaction, source, items) ==
    [id |-> id, ynab_transaction |-> ynab_transaction, transaction_date |-> Some(10),
     total_amount |-> Some(250000), merchant_name |-> None, source |-> source,
     source_transaction_id |-> NULL, items |-> items]

YnabIds == {"n1", "n2"}

\* -25.00 and -26.00 in milliunits
StoreLedgerAmounts == {-25000, -26000}

StoreItemLists ==
    {<< >>,
     << [name |-> "Item 1", amount |-> 100000], [name |-> "Item 2", amount |-> 150000] >>}

\* Fresh ids the callers of the facade draw
MaxStoreUuids == 3

\* Match records the callers of the facade create
MaxStoreMatches == 1

storeFrame == << buildVars, transaction_matches, csv_rows, csv_fieldnames, api_requests >>

\* db_manager.save_ynab_transaction(transaction)
SaveYnabTransaction(transaction) ==
    \E saved \in {save_ynab_transaction(Tables, transaction)} :
        /\ uuid_counter < MaxStoreUuids
        /\ transaction.id = Uuid(uuid_counter + 1)
        /\ ynab_transactions' = saved.tables.ynab_transactions
        /\ uuid_counter' = uuid_counter + 1
        /\ last' = [op |-> "save_ynab_transaction", transaction |-> transaction,
                    raised |-> saved.raised]
        /\ UNCHANGED << storeFrame, itemized_transactions, transaction_items >>

\* db_manager.save_itemized_transaction(itemized); drawn: the uuids drawn to
\* build the model object and its ledger object
SaveItemizedTransaction(itemized, drawn) ==
    \E saved \in {save_itemized_transaction(Tables, itemized)} :
        /\ uuid_counter + drawn <= MaxStoreUuids
        /\ ynab_transactions' = saved.tables.ynab_transactions
        /\ itemized_transactions' = saved.tables.itemized_transactions
        /\ transaction_items' = saved.tables.transaction_items
        /\ uuid_counter' = uuid_counter + drawn
        /\ last' = [op |-> "save_itemized_transaction", itemized |-> itemized,
                    raised |-> saved.raised]
        /\ UNCHANGED storeFrame

\* db_manager.delete_itemized_transaction(transaction_id)
DeleteItemizedTransaction(transaction_id) ==
    \E deleted \in {delete_itemized_transaction(Tables, transaction_id)} :
        /\ itemized_transactions' = deleted.tables.itemized_transactions
        /\ transaction_items' = deleted.tables.transaction_items
        /\ last' = [op |-> "delete_itemized_transaction",
                    transaction_id |-> transaction_id, returned |-> deleted.returned]
        /\ UNCHANGED << storeFrame, ynab_transactions, uuid_counter >>

InitStore ==
    /\ build_call = NoBuildCall
    /\ build_result = NoBuildResult
    /\ EmptyStore

NextStore ==
    \/ \E ynab_id \in YnabIds, amount \in StoreLedgerAmounts :
           SaveYnabTransaction(LedgerModel(Uuid(uuid_counter + 1), ynab_id, amount))
    \/ \E source \in {NULL, "manual"}, items \in StoreItemLists :
           \/ SaveItemizedTransaction(
                  ItemizedModel(Uuid(uuid_counter + 1), None, source, items), 1)
           \/ \E id \in DOMAIN itemized_transactions :
                  SaveItemizedTransaction(ItemizedModel(id, None, source, items), 0)
    \/ \E ynab_id \in YnabIds, amount \in StoreLedgerAmounts, items \in StoreItemLists :
           \/ SaveItemizedTransaction(
                  ItemizedModel(Uuid(uuid_counter + 2),
                                Some(LedgerModel(Uuid(uuid_counter + 1), ynab_id, amount)),
                                "manual", items), 2)
           \/ \E id \in DOMAIN itemized_transactions :
                  SaveItemizedTransaction(
                      ItemizedModel(id, Some(LedgerModel(Uuid(uuid_counter + 1), ynab_id, amount)),
                                    "manual", items), 1)
    \/ \E n \in 1..MaxStoreUuids : DeleteItemizedTransaction(Uuid(n))
    \/ \E y \in DOMAIN ynab_transactions, i \in DOMAIN itemized_transactions :
           /\ Cardinality(DOMAIN transaction_matches) < MaxStoreMatches
           /\ CreateMatch(y, i, "manual", NULL)

SpecStore == InitStore /\ [][NextStore]_vars

----------------------------------------------------------------------------
(* Ledger API client (ynab/client.py), the sync of subtransactions          *)
(* (services/subtransaction.py) and the create-subtransactions command      *)
(* (cli.py)                                                                 *)
(*                                                                          *)
(* A ledger model object is here [ynab_id, amount, category_id,             *)
(* subtransactions], a subtransaction [amount, category_id]; amounts are    *)
(* Decimals, counted in 1/DecimalScale.  The program builds them from       *)
(* integers only (the API's milliunits, client.py:149 and 201, and the      *)
(* split builder's int(), subtransaction.py:57-86), so the inputs below are *)
(* whole numbers of milliunits.  A request is the body of the PUT with the  *)
(* None values removed: NULL stands for a key that is not sent.             *)

\* int(x) of a Decimal x: truncation toward zero
IntOfDecimal(x) == IF x >= 0 THEN x \div DecimalScale ELSE -((-x) \div DecimalScale)

\* Decimal(str(n)) of an integer n
DecimalOfInt(n) == n * DecimalScale

has_subtransactions(transaction) == Len(transaction.subtransactions) > 0

validate_subtransaction_amounts(transaction) ==
    IF ~has_subtransactions(transaction) THEN TRUE
    ELSE SumAmounts(transaction.subtransactions) = transaction.amount

SubtransactionData(st) ==
    [amount |-> IntOfDecimal(st.amount), category_id |-> st.category_id]

TransactionData(transaction) ==
    [ynab_id |-> transaction.ynab_id,
     amount |-> IntOfDecimal(transaction.amount),
     category_id |-> IF has_subtransactions(transaction) THEN NULL
                     ELSE transaction.category_id,
     subtransactions |-> [k \in 1..Len(transaction.subtransactions) |->
                             SubtransactionData(transaction.subtransactions[k])]]

\* The transaction of the response: the server's echo of the request
ResponseTransaction(data) ==
    [ynab_id |-> data.ynab_id, amount |-> DecimalOfInt(data.amount),
     category_id |-> data.category_id,
     subtransactions |-> [k \in 1..Len(data.subtransactions) |->
                             [amount |-> DecimalOfInt(data.subtransactions[k].amount),
                              category_id |-> data.subtransactions[k].category_id]]]

\* The update without the validation of the amounts
update_transaction_without_validation(transaction, response) ==
    [raised |-> IF response = "ok" THEN NULL ELSE "YNABAPIError",
     requests |-> << TransactionData(transaction) >>,
     result |-> IF response = "ok"
                THEN Some(ResponseTransaction(TransactionData(transaction)))
                ELSE None]

\* response: what the server answers if it is asked, "ok" or "error".
\* requests: the requests sent; raised: the exception, NULL for none.
update_transaction_with_subtransactions(transaction, response) ==
    IF has_subtransactions(transaction) /\ ~validate_subtransaction_amounts(transaction)
    THEN [raised |-> "YNABValidationError", requests |-> << >>, result |-> None]
    ELSE [raised |-> IF response = "ok" THEN NULL ELSE "YNABAPIError",
          requests |-> << TransactionData(transaction) >>,
          result |-> IF response = "ok"
                     THEN Some(ResponseTransaction(TransactionData(transaction)))
                     ELSE None]

\* The sync that asks the client in a dry run too
sync_subtransactions_ignoring_dry_run(transaction, dry_run, response) ==
    LET updated == update_transaction_with_subtransactions(transaction, response)
    IN  [raised |-> updated.raised, requests |-> updated.requests,
         result |-> updated.result, client_calls |-> << transaction >>]

\* client_calls: the arguments of the calls of
\* ynab_client.update_transaction_with_subtransactions
sync_subtransactions_to_ynab(transaction, dry_run, response) ==
    IF dry_run
    THEN [raised |-> NULL, requests |-> << >>, result |-> None, client_calls |-> << >>]
    ELSE LET updated == update_transaction_with_subtransactions(transaction, response)
         IN  [raised |-> updated.raised, requests |-> updated.requests,
              result |-> updated.result, client_calls |-> << transaction >>]

\* _db_to_model of the row: the linked ledger row through the foreign key and
\* the items in the order the relationship loads them
get_itemized_transaction(transaction_id, item_order) ==
    IF transaction_id \notin DOMAIN itemized_transactions THEN None
    ELSE LET row == itemized_transactions[transaction_id]
             link == row.ynab_transaction_id
         IN  Some([items |-> [k \in 1..Len(item_order) |-> item_order[k].item],
                   total_amount |-> Some(row.total_amount),
                   total_tax |-> None, total_discount |-> None,
                   ynab_transaction |->
                       IF link \in DOMAIN ynab_transactions
                       THEN Some([ynab_id |-> ynab_transactions[link].ynab_id,
                                  amount |-> DecimalOfInt(ynab_transactions[link].amount),
                                  category_id |-> ynab_transactions[link].category_id,
                                  subtransactions |-> << >>])
                       ELSE None])

\* The command's outcome: exit_code, the exception that ended it (NULL for
\* none), the sync calls made, and what the sync sent.  confirmed: --yes, or
\* the answer to the prompt.
create_subtransactions(transaction_id, item_order, dry_run, confirmed, no_tax, no_discount, response) ==
    LET itemized_tx == get_itemized_transaction(transaction_id, item_order)
        stopped(code, raised) ==
            [exit_code |-> code, raised |-> raised, sync_calls |-> << >>,
             requests |-> << >>]
    IN  IF itemized_tx = None THEN stopped(1, NULL)
        ELSE IF itemized_tx[1].ynab_transaction = None THEN stopped(1, NULL)
        ELSE LET built == create_subtransactions_from_items(itemized_tx[1], ~no_tax,
                                                            ~no_discount)
                 ynab_tx == [itemized_tx[1].ynab_transaction[1] EXCEPT
                                !.subtransactions =
                                    [k \in 1..Len(built.subtransactions) |->
                                        [amount |->
                                             DecimalOfInt(built.subtransactions[k].amount),
                                         category_id |-> NULL]]]
                 synced == sync_subtransactions_to_ynab(ynab_tx, FALSE, response)
             IN  IF built.raised THEN stopped(1, "ValueError")
                 ELSE IF dry_run \/ ~confirmed THEN stopped(0, NULL)
                 ELSE [exit_code |-> IF synced.raised = NULL THEN 0 ELSE 1,
                       raised |-> synced.raised,
                       sync_calls |-> << [transaction |-> ynab_tx, dry_run |-> FALSE] >>,
                       requests |-> synced.requests]

\* The stored items of a transaction
ItemsOf(items, id) == {it \in items : it.transaction_id = id}

\* Requests the model lets the client send
MaxRequests == 2

syncFrame == << buildVars, ynab_transactions, itemized_transactions, transaction_items,
                transaction_matches, csv_rows, csv_fieldnames, uuid_counter >>

\* ynab_client.update_transaction_with_subtransactions(transaction)
UpdateTransactionWithSubtransactions(transaction, response) ==
    \E updated \in {update_transaction_with_subtransactions(transaction, response)} :
        /\ Len(api_requests) < MaxRequests
        /\ api_requests' = api_requests \o updated.requests
        /\ last' = [op |-> "update_transaction_with_subtransactions",
                    transaction |-> transaction, raised |-> updated.raised,
                    result |-> updated.result]
        /\ UNCHANGED syncFrame

\* service.sync_subtransactions_to_ynab(transaction, dry_run)
SyncSubtransactionsToYnab(transaction, dry_run, response) ==
    \E synced \in {sync_subtransactions_to_ynab(transaction, dry_run, response)} :
        /\ Len(api_requests) < MaxRequests
        /\ api_requests' = api_requests \o synced.requests
        /\ last' = [op |-> "sync_subtransactions_to_ynab", transaction |-> transaction,
                    dry_run |-> dry_run, raised |-> synced.raised,
                    result |-> synced.result, client_calls |-> synced.client_calls]
        /\ UNCHANGED syncFrame

\* ynab-itemized create-subtransactions ID [--dry-run] [--yes] [--no-tax] [--no-discount]
CreateSubtransactionsCommand(transaction_id, dry_run, confirmed, no_tax, no_discount, response) ==
    \E item_order \in Orders(ItemsOf(transaction_items, transaction_id)) :
        \E done \in {create_subtransactions(transaction_id, item_order, dry_run, confirmed,
                                            no_tax, no_discount, response)} :
            /\ Len(api_requests) < MaxRequests
            /\ api_requests' = api_requests \o done.requests
            /\ last' = [op |-> "create_subtransactions", dry_run |-> dry_run,
                        confirmed |-> confirmed, exit_code |-> done.exit_code,
                        raised |-> done.raised, sync_calls |-> done.sync_calls]
            /\ UNCHANGED syncFrame

Responses == {"ok", "error"}

CategoryIds == {NULL, "c1"}

\* Splits of -25 milliunits and lists that are none: -10 - 15, -25, -10 - 16, -10
SyncSubtransactionLists ==
    {<< >>,
     << [amount |-> DecimalOfInt(-10), category_id |-> "c1"],
        [amount |-> DecimalOfInt(-15), category_id |-> NULL] >>,
     << [amount |-> DecimalOfInt(-25), category_id |-> NULL] >>,
     << [amount |-> DecimalOfInt(-10), category_id |-> NULL],
        [amount |-> DecimalOfInt(-16), category_id |-> NULL] >>,
     << [amount |-> DecimalOfInt(-10), category_id |-> NULL] >>}

SyncTransactions ==
    [ynab_id : {"n1"}, amount : {DecimalOfInt(-25)}, category_id : CategoryIds,
     subtransactions : SyncSubtransactionLists]

SyncLedgerRow(ynab_id, amount, category_id) ==
    [ynab_id |-> ynab_id, date |-> 10, amount |-> amount, payee_name |-> None,
     category_id |-> category_id]

SyncLedgerRows ==
    [y \in {"y1", "y2"} |->
        IF y = "y1" THEN SyncLedgerRow("n1", -25000, "c1")
        ELSE SyncLedgerRow("n2", -26000, NULL)]

SyncItemizedRows ==
    [i \in {"i1", "i2", "i3", "i4"} |-> NewItemizedRow(10, 250000, None, "manual", NULL)]

\* The pairs a user has matched by hand: create_match and then accept_match
SyncPairs == << << "y1", "i1" >>, << "y1", "i2" >>, << "y2", "i4" >> >>

RECURSIVE AcceptedPairs(_, _, _)
AcceptedPairs(pairs, matches, itemized) ==
    IF pairs = << >>
    THEN [transaction_matches |-> matches, itemized_transactions |-> itemized]
    ELSE LET y == Head(pairs)[1]
             i == Head(pairs)[2]
             score == _calculate_match_score(itemized[i], SyncLedgerRows[y])
             created == (MatchId(y, i) :>
                            create_match(y, i, [num |-> score.num, den |-> score.den],
                                         "manual", NULL)) @@ matches
         IN  TheOnly({AcceptedPairs(Tail(pairs), accepted.transaction_matches,
                                    accepted.itemized_transactions) :
                          accepted \in {accept_match(created, itemized, MatchId(y, i),
                                                     "user")}})

\* i1 (25.00 = 10.00 + 15.00) is matched to y1 (-25000); the items of i2 do
\* not sum to its total; i3 is not matched; i4 (25.00) is matched to y2
\* (-26000).
InitSync ==
    /\ build_call = NoBuildCall
    /\ build_result = NoBuildResult
    /\ ynab_transactions = SyncLedgerRows
    /\ \E accepted \in {AcceptedPairs(SyncPairs, << >>, SyncItemizedRows)} :
           /\ itemized_transactions = accepted.itemized_transactions
           /\ transaction_matches = accepted.transaction_matches
    /\ transaction_items =
           StoredItems("i1", << [name |-> "Item 1", amount |-> 100000],
                                [name |-> "Item 2", amount |-> 150000] >>)
             \cup StoredItems("i2", << [name |-> "Item 1", amount |-> 100000] >>)
             \cup StoredItems("i4", << [name |-> "Item 1", amount |-> 100000],
                                       [name |-> "Item 2", amount |-> 150000] >>)
    /\ csv_rows = << >>
    /\ csv_fieldnames = {}
    /\ api_requests = << >>
    /\ uuid_counter = 0
    /\ last = [op |-> "none"]

NextSync ==
    \/ \E transaction \in SyncTransactions, response \in Responses :
           UpdateTransactionWithSubtransactions(transaction, response)
    \/ \E transaction \in SyncTransactions, dry_run \in BOOLEAN, response \in Responses :
           SyncSubtransactionsToYnab(transaction, dry_run, response)
    \/ \E transaction_id \in {"i1", "i2", "i3", "i4", "i9"},
          dry_run, confirmed, no_tax, no_discount \in BOOLEAN, response \in Responses :
           CreateSubtransactionsCommand(transaction_id, dry_run, confirmed, no_tax,
                                        no_discount, response)

SpecSync == InitSync /\ [][NextSync]_vars

----------------
(* Claims about the split builder, checked under SpecBuild                 *)

\* round(x * 1000) for a Decimal x (Python rounds half to even), in milliunits.
Round1000(x) ==
    LET q == Abs(x) \div 10
        r == Abs(x) % 10
        m == IF r > 5 \/ (r = 5 /\ q % 2 = 1) THEN q + 1 ELSE q
    IN  IF x >= 0 THEN m ELSE -m

BuiltTransaction == build_call.itemized_transaction

BuiltEmitted ==
    EmittedSubtransactions(BuiltTransaction, build_call.include_tax_subtransaction,
                           build_call.include_discount_subtransaction)

\* C1: split-sum invariant.  Whenever total_amount is set (0.00 and an empty
\* item list included), a call that does not raise returns a list whose
\* amounts sum exactly to -round(total_amount * 1000) milliunits.
C1_SplitSumInvariant ==
    (build_result.called /\ BuiltTransaction.total_amount # None /\ ~build_result.raised)
        => SumAmounts(build_result.subtransactions)
               = -Round1000(BuiltTransaction.total_amount[1])

\* C5: rounding absorption.  When the emitted amounts differ from
\* expected = -round(total_amount * 1000) by d with 0 < |d| <= 10, the call
\* succeeds, every entry but the last keeps its emitted amount and the last
\* entry is changed by exactly expected - actual.
C5_RoundingAbsorption ==
    LET emitted == BuiltEmitted
        n == Len(emitted)
        expected == -Round1000(BuiltTransaction.total_amount[1])
        d == expected - SumAmounts(emitted)
    IN  (/\ build_result.called
         /\ BuiltTransaction.total_amount # None
         /\ emitted # <<>>
         /\ d # 0
         /\ Abs(d) <= RoundingTolerance)
        => /\ ~build_result.raised
           /\ Len(build_result.subtransactions) = n
           /\ \A k \in 1..(n - 1) : build_result.subtransactions[k] = emitted[k]
           /\ build_result.subtransactions[n]
                  = [emitted[n] EXCEPT !.amount = @ + d]

\* C6: when the emitted amounts differ from -round(total_amount * 1000) by
\* more than 10 milliunits the call raises an error that states the
\* difference, and no list (not even a partial one) is returned.
C6_LargeDifferenceRaises ==
    LET expected == -Round1000(BuiltTransaction.total_amount[1])
        d == expected - SumAmounts(BuiltEmitted)
    IN  (/\ build_result.called
         /\ BuiltTransaction.total_amount # None
         /\ Abs(d) > RoundingTolerance)
        => /\ build_result.raised
           /\ build_result.diff = Abs(d)
           /\ build_result.subtransactions = <<>>

\* The list the builder is said to emit: items in order, then "Tax", then
\* "Discount", every amount rounded to the nearest milliunit.
RoundedEmitted(t, include_tax, include_discount) ==
    [k \in 1..Len(t.items) |->
        [amount |-> -Abs(Round1000(t.items[k].amount)), memo |-> t.items[k].name,
         category_id |-> NULL]]
    \o (IF include_tax /\ t.total_tax # None /\ t.total_tax[1] # 0
        THEN << [amount |-> -Round1000(t.total_tax[1]), memo |-> "Tax",
                 category_id |-> NULL] >>
        ELSE << >>)
    \o (IF include_discount /\ t.total_discount # None /\ t.total_discount[1] # 0
        THEN << [amount |-> Round1000(t.total_discount[1]), memo |-> "Discount",
                 category_id |-> NULL] >>
        ELSE << >>)

\* C24: before reconciliation the builder emits one subtransaction per item
\* in item order (amount -|round(item.amount * 1000)|, memo the item's name,
\* no category), then "Tax" (-round(total_tax * 1000)) iff include_tax is set
\* and total_tax is non-null and non-zero, then "Discount"
\* (+round(total_discount * 1000)) iff include_discount is set and
\* total_discount is non-null and non-zero.
C24_EmittedList ==
    build_result.called
        => BuiltEmitted = RoundedEmitted(BuiltTransaction,
                                         build_call.include_tax_subtransaction,
                                         build_call.include_discount_subtransaction)

----------------------------------------------------------------------------
(* Claims about scoring and the candidate search, checked under SpecFind    *)

\* C2: for an itemized and a ledger transaction with the same date, the same
\* amount (total_amount A > 0 in major units, ledger amount -A * 1000
\* milliunits) and the same merchant/payee string up to case,
\* _calculate_match_score returns 1.0.
C2_IdenticalPairScoresOne ==
    last.op = "_calculate_match_score" =>
        LET itemized == itemized_transactions[last.itemized]
            ynab == ynab_transactions[last.ynab]
        IN  (/\ ynab.date = itemized.transaction_date
             /\ itemized.total_amount > 0
             /\ ynab.amount * (DecimalScale \div 1000) = -itemized.total_amount
             /\ itemized.merchant_name # None
             /\ ynab.payee_name # None
             /\ Lower(itemized.merchant_name[1]) = Lower(ynab.payee_name[1]))
            => (~last.score.raised /\ last.score.num = last.score.den)

\* C17: for every itemized/ledger pair, the pair with both amounts zero
\* included, _calculate_match_score returns a score s with 0 <= s <= 1.
C17_ScoreInUnitInterval ==
    last.op = "_calculate_match_score" =>
        /\ ~last.score.raised
        /\ 0 <= last.score.num
        /\ last.score.num <= last.score.den

\* The ledger amount (milliunits) lies in [-(A + A*p) * 1000, -(A - A*p) * 1000]
\* for A = |total_amount| in major units and p = pct / 100.
InMilliunitWindow(ynab_amount, total_amount, pct) ==
    /\ -ynab_amount * 100 * (DecimalScale \div 1000) <= Abs(total_amount) * (100 + pct)
    /\ -ynab_amount * 100 * (DecimalScale \div 1000) >= Abs(total_amount) * (100 - pct)

\* C3: the candidates of find_matches are exactly the stored ledger
\* transactions whose date is within date_tolerance_days of transaction_date
\* and whose milliunit amount is within the tolerance around -A * 1000.
C3_CandidatesAreTheWindow ==
    last.op = "find_matches" =>
        LET itemized == itemized_transactions[last.itemized]
        IN  {last.result.candidates[k] : k \in 1..Len(last.result.candidates)}
                = {y \in DOMAIN ynab_transactions :
                      /\ InDateWindow(ynab_transactions[y].date, itemized.transaction_date,
                                      last.date_tolerance_days)
                      /\ InMilliunitWindow(ynab_transactions[y].amount,
                                           itemized.total_amount, last.pct)}

\* The place of a ledger row in the candidates as the store returned them
RetrievalPlace(candidates, y) == CHOOSE k \in 1..Len(candidates) : candidates[k] = y

\* C29: find_matches returns exactly the candidates whose score is strictly
\* greater than 0.3, ordered by score descending; candidates of equal score
\* keep the order in which they were retrieved.
C29_MatchesFilteredAndSorted ==
    (last.op = "find_matches" /\ ~last.result.raised) =>
        LET itemized == itemized_transactions[last.itemized]
            candidates == last.result.candidates
            matches == last.result.matches
            ScoreOf(y) == _calculate_match_score(itemized, ynab_transactions[y])
        IN  /\ \A k \in 1..Len(matches) :
                   /\ matches[k].score.num * 100 > 30 * matches[k].score.den
                   /\ matches[k].score.num * ScoreOf(matches[k].ynab_transaction).den
                          = ScoreOf(matches[k].ynab_transaction).num * matches[k].score.den
            /\ {matches[k].ynab_transaction : k \in 1..Len(matches)}
                   = {candidates[k] : k \in {j \in 1..Len(candidates) :
                          ScoreOf(candidates[j]).num * 100 > 30 * ScoreOf(candidates[j]).den}}
            /\ Len(matches) <= Len(candidates)
            /\ \A j, k \in 1..Len(matches) :
                   j < k =>
                       /\ matches[j].score.num * matches[k].score.den
                              >= matches[k].score.num * matches[j].score.den
                       /\ matches[j].score.num * matches[k].score.den
                              = matches[k].score.num * matches[j].score.den
                          => RetrievalPlace(candidates, matches[j].ynab_transaction)
                                 < RetrievalPlace(candidates, matches[k].ynab_transaction)

\* find_matches has put the better of two candidates first although the
\* store returned it second.
C29_Witness ==
    /\ last.op = "find_matches"
    /\ ~last.result.raised
    /\ Len(last.result.candidates) = 2
    /\ Len(last.result.matches) = 2
    /\ last.result.matches[1].ynab_transaction = last.result.candidates[2]
    /\ last.result.matches[2].ynab_transaction = last.result.candidates[1]
    /\ ScoreLess(last.result.matches[2].score, last.result.matches[1].score)

\* The date term in hundredths: 0.30 at 0 days, 0.25 up to 1, 0.15 up to 3,
\* 0.05 up to 7, 0 beyond.
DateTermTable(days) ==
    CASE days = 0 -> 30
      [] days = 1 -> 25
      [] days \in 2..3 -> 15
      [] days \in 4..7 -> 5
      [] OTHER -> 0

\* The amount term in hundredths for the ratio diff / larger: 0.40 at 0, 0.35
\* up to 0.01, 0.25 up to 0.05, 0.15 up to 0.10, 0 beyond.
AmountTermTable(diff, larger) ==
    CASE diff = 0 -> 40
      [] diff > 0 /\ diff <= larger \div 100 -> 35
      [] diff > larger \div 100 /\ diff <= larger \div 20 -> 25
      [] diff > larger \div 20 /\ diff <= larger \div 10 -> 15
      [] OTHER -> 0

RECURSIVE RatioLE(_, _, _, _)
\* a / b <= c / d for a, c >= 0 and b, d > 0, by comparing the whole parts and
\* then the remainders, without forming the products.
RatioLE(a, b, c, d) ==
    IF a \div b # c \div d THEN a \div b < c \div d
    ELSE IF a % b = 0 THEN TRUE
    ELSE IF c % d = 0 THEN FALSE
    ELSE RatioLE(d, c % d, b, a % b)

DaysBetween(itemized, ynab) == Abs(itemized.transaction_date - ynab.date)

AmountDiff(itemized, ynab) == Abs(Abs(itemized.total_amount) - Abs(ynab.amount) * DecimalScale)

AmountLarger(itemized, ynab) == Max(Abs(itemized.total_amount), Abs(ynab.amount) * DecimalScale)

\* C30: match monotonicity.  Of two ledger transactions with the same amount
\* and payee, the one further from the itemized date never scores higher,
\* and the scores differ by the difference of the date terms of the table;
\* of two with the same date and payee, the one with the larger amount ratio
\* never scores higher, and the scores differ by the difference of the
\* amount terms of the table.
C30_ScoreMonotone ==
    (last.op = "_calculate_match_score" /\ ~last.score.raised) =>
        LET itemized == itemized_transactions[last.itemized]
            ynab == ynab_transactions[last.ynab]
        IN  \A y \in DOMAIN ynab_transactions :
                \A other \in {_calculate_match_score(itemized, ynab_transactions[y])} :
                    LET far == ynab_transactions[y]
                        gap == last.score.num * other.den - other.num * last.score.den
                        unit == (last.score.den * other.den) \div 100
                    IN  ~other.raised =>
                            /\ (/\ far.amount = ynab.amount
                                /\ far.payee_name = ynab.payee_name
                                /\ DaysBetween(itemized, ynab) <= DaysBetween(itemized, far))
                               => /\ gap >= 0
                                  /\ gap = (DateTermTable(DaysBetween(itemized, ynab))
                                              - DateTermTable(DaysBetween(itemized, far))) * unit
                            /\ (/\ far.date = ynab.date
                                /\ far.payee_name = ynab.payee_name
                                /\ RatioLE(AmountDiff(itemized, ynab),
                                           AmountLarger(itemized, ynab),
                                           AmountDiff(itemized, far),
                                           AmountLarger(itemized, far)))
                               => /\ gap >= 0
                                  /\ gap = (AmountTermTable(AmountDiff(itemized, ynab),
                                                            AmountLarger(itemized, ynab))
                                              - AmountTermTable(AmountDiff(itemized, far),
                                                                AmountLarger(itemized, far)))
                                             * unit

\* A score was computed for a ledger transaction; the store holds another
\* with the same payee that is either the same amount more than seven days
\* from the itemized date, or the same date with an amount one percent off.
C30_Witness ==
    /\ last.op = "_calculate_match_score"
    /\ ~last.score.raised
    /\ \E y \in DOMAIN ynab_transactions \ {last.ynab} :
           LET itemized == itemized_transactions[last.itemized]
               ynab == ynab_transactions[last.ynab]
               far == ynab_transactions[y]
           IN  /\ far.payee_name = ynab.payee_name
               /\ \/ /\ far.amount = ynab.amount
                     /\ DaysBetween(itemized, ynab) = 0
                     /\ DaysBetween(itemized, far) > 7
                  \/ /\ far.date = ynab.date
                     /\ AmountDiff(itemized, ynab) = 0
                     /\ AmountDiff(itemized, far) > 0
                     /\ AmountDiff(itemized, far) <= AmountLarger(itemized, far) \div 100

----------------------------------------------------------------------------
(* Claim about the import, checked under SpecImport                         *)

StoredFor(source, source_transaction_id) ==
    {i \in DOMAIN itemized_transactions :
        /\ itemized_transactions[i].source = source
        /\ itemized_transactions[i].source_transaction_id = source_transaction_id}

\* C4: after the row set has been imported, once or again, the store holds
\* exactly one ItemizedTransaction per group key (source, Order ID) of the rows.
C4_ReimportIsIdempotent ==
    (last.op = "import_amazon" /\ ~last.raised) =>
            \A k \in 1..Len(csv_rows) :
                Strip(csv_rows[k].order_id) # "" =>
                    Cardinality(StoredFor("amazon", Strip(csv_rows[k].order_id))) = 1

\* The row has an Order ID: the field is there and is not blank.
HasOrderId(row) == row.order_id \notin {NULL, "", " "}

OrderIdsOf(rows) == {rows[k].order_id : k \in {j \in 1..Len(rows) : HasOrderId(rows[j])}}

FirstRowOf(rows, order_id) ==
    CHOOSE k \in 1..Len(rows) :
        /\ rows[k].order_id = order_id
        /\ \A j \in 1..(k - 1) : rows[j].order_id # order_id

\* C12: grouping yields one group per distinct non-empty Order ID, in
\* first-seen order of the ids; the rows of a group are the rows with its id
\* in their original order; rows with an empty or missing Order ID are
\* dropped.
C12_GroupingCorrect ==
    last.op = "_group_items_by_order" =>
        LET grouped == last.result.grouped
        IN  /\ ~last.result.raised
            /\ Len(grouped) = Cardinality(OrderIdsOf(csv_rows))
            /\ {grouped[k].order_id : k \in 1..Len(grouped)} = OrderIdsOf(csv_rows)
            /\ \A j, k \in 1..Len(grouped) :
                   j < k => FirstRowOf(csv_rows, grouped[j].order_id)
                                < FirstRowOf(csv_rows, grouped[k].order_id)
            /\ \A k \in 1..Len(grouped) :
                   grouped[k].order_items
                       = SelectSeq(csv_rows, LAMBDA r : r.order_id = grouped[k].order_id)

\* An item row that _parse_item cannot parse
BadItem(row) ==
    \/ row.title \in {NULL, "", " "}
    \/ None \in {row.unit_price, row.quantity, row.item_tax, row.item_total}

\* The order cannot be parsed: its date (the Order Date of its first row)
\* or one of its item rows does not parse.
BadOrder(rows, order_id) ==
    \/ rows[FirstRowOf(rows, order_id)].order_date = None
    \/ \E k \in 1..Len(rows) : rows[k].order_id = order_id /\ BadItem(rows[k])

\* C13: parse_csv_file returns one transaction for every group or raises; it
\* raises, returning no list, when a required column is missing or when any
\* order has a date, a title, an amount or a quantity that does not parse.
C13_ParseIsAllOrNothing ==
    last.op = "parse_csv_file" =>
        /\ \/ last.result.raised /\ last.result.transactions = <<>>
           \/ /\ ~last.result.raised
              /\ Len(last.result.transactions) = Cardinality(OrderIdsOf(csv_rows))
        /\ (\/ ~(REQUIRED_COLUMNS \subseteq csv_fieldnames)
            \/ \E o \in OrderIdsOf(csv_rows) : BadOrder(csv_rows, o))
               => last.result.raised

\* The first order of the file parses, the second has a blank title, and the
\* call raised.
C13_Witness ==
    /\ last.op = "parse_csv_file"
    /\ last.result.raised
    /\ REQUIRED_COLUMNS \subseteq csv_fieldnames
    /\ Len(csv_rows) = 2
    /\ csv_rows[1].order_id = "o1"
    /\ ~BadOrder(<< csv_rows[1] >>, "o1")
    /\ csv_rows[2].order_id = "o2"
    /\ csv_rows[2].title = " "

RECURSIVE RowSum(_, _)
\* The sum of a numeric column over rows
RowSum(rows, column) ==
    IF rows = << >> THEN 0 ELSE Head(rows)[column][1] + RowSum(Tail(rows), column)

RowsOfOrder(rows, order_id) == SelectSeq(rows, LAMBDA r : r.order_id = order_id)

\* C27: the transaction of an order has the date and the merchant of the
\* order's first row, one item per row with the row's unit price as amount
\* and the row's quantity, total_amount = the sum of the rows' Item Total,
\* total_tax = the sum of the rows' Item Subtotal Tax, the order id as
\* source_transaction_id and source "amazon".
C27_OrderFields ==
    (last.op = "parse_csv_file" /\ ~last.result.raised) =>
        \A k \in 1..Len(last.result.transactions) :
            LET tx == last.result.transactions[k]
                rows == RowsOfOrder(csv_rows, tx.source_transaction_id)
            IN  /\ tx.source_transaction_id \in OrderIdsOf(csv_rows)
                /\ tx.source = "amazon"
                /\ tx.transaction_date = rows[1].order_date[1]
                /\ tx.merchant_name = IF rows[1].website = << >> THEN DefaultMerchant
                                      ELSE rows[1].website
                /\ Len(tx.items) = Len(rows)
                /\ \A j \in 1..Len(rows) :
                       /\ tx.items[j].amount = rows[j].unit_price[1]
                       /\ tx.items[j].quantity = rows[j].quantity[1]
                /\ tx.total_amount = RowSum(rows, "item_total")
                /\ tx.total_tax = RowSum(rows, "item_tax")

\* An order of two rows was parsed, one of them of two units: the item
\* amounts (10.00 and 15.00) do not add up to total_amount (42.40).
C27_Witness ==
    /\ last.op = "parse_csv_file"
    /\ ~last.result.raised
    /\ \E k \in 1..Len(last.result.transactions) :
           LET tx == last.result.transactions[k]
           IN  /\ Len(tx.items) = 2
               /\ \E j \in 1..2 : tx.items[j].quantity = 2
               /\ tx.items[1].amount + tx.items[2].amount # tx.total_amount
               /\ tx.total_tax # 0

----------------------------------------------------------------------------
(* Claims about match records and the sweep, checked under Spec             *)

SweepOrders == [get_unmatched_itemized_transactions -> Orders(DOMAIN ynab_transactions)]

\* C7: a sweep gives every itemized transaction that was unmatched before it
\* an accepted match (reviewer "system", method "automatic") for its top
\* candidate and makes it matched when the top score reaches the threshold;
\* otherwise the transaction stays unmatched and gets no new match record.
C7_SweepAcceptsTopCandidate ==
    [][\A confidence_threshold \in ConfidenceThresholds, order \in SweepOrders :
           AutoMatch(confidence_threshold, order) =>
               \A i \in get_unmatched_itemized_transactions :
                   LET found == find_matches(itemized_transactions[i], DefaultDateTolerance,
                                             DefaultAmountTolerancePct, order[i])
                       m == MatchId(found.matches[1].ynab_transaction, i)
                   IN  IF /\ found.matches # <<>>
                          /\ ScoreGE(found.matches[1].score, confidence_threshold)
                       THEN /\ m \in DOMAIN transaction_matches'
                            /\ transaction_matches'[m].status = "accepted"
                            /\ transaction_matches'[m].reviewed_by = "system"
                            /\ transaction_matches'[m].match_method = "automatic"
                            /\ itemized_transactions'[i].match_status = "matched"
                       ELSE /\ itemized_transactions'[i].match_status = "unmatched"
                            /\ \A n \in DOMAIN transaction_matches' :
                                   n[2] = i => n \in DOMAIN transaction_matches
      ]_vars

\* C8: accept_match makes the match accepted and copies its ledger id, its
\* score and its method to its itemized transaction, which becomes matched;
\* every other itemized transaction, every ledger transaction and every
\* other match record stays as it was.
C8_AcceptMatchEffect ==
    [][\A m \in DOMAIN transaction_matches :
           AcceptMatch(m, "user") =>
               LET match == transaction_matches[m]
                   i == match.itemized_transaction_id
               IN  /\ transaction_matches'[m].status = "accepted"
                   /\ itemized_transactions'[i].ynab_transaction_id
                          = match.ynab_transaction_id
                   /\ itemized_transactions'[i].match_status = "matched"
                   /\ itemized_transactions'[i].match_confidence = Some(match.match_score)
                   /\ itemized_transactions'[i].match_method = match.match_method
                   /\ DOMAIN itemized_transactions' = DOMAIN itemized_transactions
                   /\ \A j \in DOMAIN itemized_transactions \ {i} :
                          itemized_transactions'[j] = itemized_transactions[j]
                   /\ ynab_transactions' = ynab_transactions
                   /\ DOMAIN transaction_matches' = DOMAIN transaction_matches
                   /\ \A n \in DOMAIN transaction_matches \ {m} :
                          transaction_matches'[n] = transaction_matches[n]
      ]_vars

\* An accept_match has just copied a reviewed match to its itemized transaction.
C8_Witness ==
    /\ last.op = "accept_match"
    /\ \E m \in DOMAIN transaction_matches :
           /\ transaction_matches[m].status = "accepted"
           /\ transaction_matches[m].reviewed_by = "user"
           /\ itemized_transactions[m[2]].match_status = "matched"
           /\ itemized_transactions[m[2]].ynab_transaction_id = m[1]
           /\ itemized_transactions[m[2]].match_method = "manual"

\* C9: every itemized transaction starts unmatched; its match_status changes
\* only from unmatched to matched, manual_match or no_match; once matched it
\* stays matched.
C9_MatchStatusStateMachine ==
    /\ \A i \in DOMAIN itemized_transactions :
           itemized_transactions[i].match_status = "unmatched"
    /\ [][\A i \in DOMAIN itemized_transactions :
              LET before == itemized_transactions[i].match_status
                  after == itemized_transactions'[i].match_status
              IN  /\ before = "matched" => after = "matched"
                  /\ after # before =>
                         /\ before = "unmatched"
                         /\ after \in {"matched", "manual_match", "no_match"}
         ]_vars

\* A matched itemized transaction whose match has then been rejected is
\* still matched.
C9_Witness ==
    /\ last.op = "reject_match"
    /\ \E m \in DOMAIN transaction_matches :
           /\ transaction_matches[m].status = "rejected"
           /\ itemized_transactions[m[2]].match_status = "matched"
           /\ itemized_transactions[m[2]].ynab_transaction_id = m[1]

AcceptedMatches(matches, i) ==
    {m \in DOMAIN matches :
        matches[m].itemized_transaction_id = i /\ matches[m].status = "accepted"}

\* At most one accepted match for i, and exactly one, for the linked ledger
\* transaction, when i is matched.
OneAcceptedMatch(matches, itemized, i) ==
    /\ Cardinality(AcceptedMatches(matches, i)) <= 1
    /\ itemized[i].match_status = "matched" =>
           \E m \in DOMAIN matches :
               /\ AcceptedMatches(matches, i) = {m}
               /\ matches[m].ynab_transaction_id = itemized[i].ynab_transaction_id

\* C10 as stated: after any sequence of create_match, accept_match,
\* reject_match and auto_match_transactions every itemized transaction has at
\* most one accepted match, and a matched one has exactly one, for the ledger
\* transaction it is linked to.
C10_OneAcceptedMatchAlways ==
    \A i \in DOMAIN itemized_transactions :
        OneAcceptedMatch(transaction_matches, itemized_transactions, i)

\* C10 as it holds: a sweep leaves every itemized transaction that was
\* unmatched and had no accepted match before it with at most one accepted
\* match, and with exactly one, for its linked ledger transaction, when the
\* sweep matched it.
C10_SweepOneAcceptedMatch ==
    [][\A confidence_threshold \in ConfidenceThresholds, order \in SweepOrders :
           AutoMatch(confidence_threshold, order) =>
               \A i \in get_unmatched_itemized_transactions :
                   AcceptedMatches(transaction_matches, i) = {} =>
                       OneAcceptedMatch(transaction_matches', itemized_transactions', i)
      ]_vars

\* A sweep has committed: an itemized transaction is matched by the system to
\* the ledger transaction of its only accepted match.
C10_Witness ==
    /\ last.op = "auto_match_transactions"
    /\ ~last.raised
    /\ \E m \in DOMAIN transaction_matches :
           /\ transaction_matches[m].status = "accepted"
           /\ transaction_matches[m].reviewed_by = "system"
           /\ itemized_transactions[m[2]].match_status = "matched"
           /\ itemized_transactions[m[2]].ynab_transaction_id = m[1]
           /\ itemized_transactions[m[2]].match_method = "automatic"
           /\ AcceptedMatches(transaction_matches, m[2]) = {m}

\* The unmatched itemized transactions whose top candidate reaches the threshold.
SweepWanted(confidence_threshold, order) ==
    {i \in get_unmatched_itemized_transactions :
        LET found == find_matches(itemized_transactions[i], DefaultDateTolerance,
                                  DefaultAmountTolerancePct, order[i])
        IN  /\ found.matches # <<>>
            /\ ScoreGE(found.matches[1].score, confidence_threshold)}

\* C11: a sweep is all or nothing.  Either every acceptance of the sweep is in
\* the store after it, or, when the sweep ended with an error, no match
\* record and no itemized transaction of the store has changed.
C11_SweepIsAtomic ==
    [][\A confidence_threshold \in ConfidenceThresholds, order \in SweepOrders :
           AutoMatch(confidence_threshold, order) =>
               /\ last'.raised =>
                      UNCHANGED << transaction_matches, itemized_transactions >>
               /\ \/ UNCHANGED << transaction_matches, itemized_transactions >>
                  \/ \A i \in SweepWanted(confidence_threshold, order) :
                         /\ itemized_transactions'[i].match_status = "matched"
                         /\ \E m \in DOMAIN transaction_matches' \ DOMAIN transaction_matches :
                                m[2] = i /\ transaction_matches'[m].status = "accepted"
      ]_vars

\* A sweep has failed and the store still has an unmatched itemized
\* transaction that the sweep's loop accepts: its acceptance was not kept.
C11_Witness ==
    /\ last.op = "auto_match_transactions"
    /\ last.raised
    /\ \E i \in get_unmatched_itemized_transactions, order \in Orders(DOMAIN ynab_transactions) :
           LET found == find_matches(itemized_transactions[i], DefaultDateTolerance,
                                     DefaultAmountTolerancePct, order)
           IN  /\ found.matches # <<>>
               /\ ScoreGE(found.matches[1].score, 90)
               /\ MatchId(found.matches[1].ynab_transaction, i) \notin DOMAIN transaction_matches

\* C25: a rejected pairing stays rejected.  A sweep that runs after
\* reject_match was applied to the match of a pair neither accepts that pair
\* nor fails because a match record for the pair is already stored.
C25_RejectedStaysRejected ==
    [][\A confidence_threshold \in ConfidenceThresholds, order \in SweepOrders :
           AutoMatch(confidence_threshold, order) =>
               \A swept \in {auto_match_transactions(confidence_threshold, order)} :
                   \A m \in DOMAIN transaction_matches :
                       transaction_matches[m].status = "rejected" =>
                           /\ transaction_matches'[m].status = "rejected"
                           /\ ~(swept.conflict /\ m \in swept.auto_matches)
      ]_vars

\* C26: a sweep never links one ledger transaction to two itemized
\* transactions.  After a sweep no itemized transaction that the sweep matched
\* shares its ledger link with another matched one, and none is linked to a
\* ledger transaction that had an accepted match before the sweep.
C26_SweepLinksLedgerOnce ==
    [][\A confidence_threshold \in ConfidenceThresholds, order \in SweepOrders :
           AutoMatch(confidence_threshold, order) =>
               \A i \in get_unmatched_itemized_transactions :
                   itemized_transactions'[i].match_status = "matched" =>
                       /\ \A j \in DOMAIN itemized_transactions' \ {i} :
                              itemized_transactions'[j].match_status = "matched" =>
                                  itemized_transactions'[j].ynab_transaction_id
                                      # itemized_transactions'[i].ynab_transaction_id
                       /\ \A m \in DOMAIN transaction_matches :
                              transaction_matches[m].status = "accepted" =>
                                  transaction_matches[m].ynab_transaction_id
                                      # itemized_transactions'[i].ynab_transaction_id
      ]_vars

\* C18: reject_match changes the match record only: its status becomes
\* rejected and reviewed_by is recorded; the itemized transaction's ledger
\* link, match_status, match_confidence and match_method and every other
\* record stay as they were.
C18_RejectMatchFrame ==
    [][last'.op = "reject_match" =>
          /\ itemized_transactions' = itemized_transactions
          /\ ynab_transactions' = ynab_transactions
          /\ transaction_items' = transaction_items
          /\ \E m \in DOMAIN transaction_matches, reviewed_by \in Reviewers \cup {"user"} :
                 transaction_matches' =
                     [transaction_matches EXCEPT
                         ![m] = [@ EXCEPT !.status = "rejected",
                                          !.reviewed_by = reviewed_by]]]_vars

\* The accepted match of a linked itemized transaction has been rejected by
\* the user; the link and its confidence are still there.
C18_Witness ==
    /\ last.op = "reject_match"
    /\ \E m \in DOMAIN transaction_matches :
           /\ transaction_matches[m].status = "rejected"
           /\ transaction_matches[m].reviewed_by = "user"
           /\ itemized_transactions[m[2]].ynab_transaction_id = m[1]
           /\ itemized_transactions[m[2]].match_confidence # None

----------------
(* Claims about the persistence facade, checked under SpecStore            *)

\* C14: save_itemized_transaction(t) with the id of a stored transaction
\* leaves the number of stored itemized transactions unchanged and makes t.items
\* the stored items of that transaction; with an id that is not stored it
\* inserts one transaction whose stored items are t.items.
C14_UpsertById ==
    [][last'.op = "save_itemized_transaction" =>
          LET t == last'.itemized
          IN  /\ t.id \in DOMAIN itemized_transactions'
              /\ ItemsOf(transaction_items', t.id) = StoredItems(t.id, t.items)
              /\ IF t.id \in DOMAIN itemized_transactions
                 THEN DOMAIN itemized_transactions' = DOMAIN itemized_transactions
                 ELSE DOMAIN itemized_transactions' =
                          DOMAIN itemized_transactions \cup {t.id}]_vars

RowsOf(ynab_table, ynab_id) == {k \in DOMAIN ynab_table : ynab_table[k].ynab_id = ynab_id}

\* The ledger table holds exactly one row for the ledger model object, with
\* its fields, and as many rows as before if its ynab_id was stored.
LedgerUpserted(transaction) ==
    /\ \E k \in DOMAIN ynab_transactions' :
           /\ RowsOf(ynab_transactions', transaction.ynab_id) = {k}
           /\ ynab_transactions'[k] =
                  LedgerRow(transaction.ynab_id, transaction.date, transaction.amount,
                            transaction.payee_name)
    /\ RowsOf(ynab_transactions, transaction.ynab_id) # {} =>
           Cardinality(DOMAIN ynab_transactions') = Cardinality(DOMAIN ynab_transactions)

\* C15: after every save the store holds at most one ledger row per ynab_id;
\* save_ynab_transaction upserts the row of its ynab_id (an update when the
\* ynab_id is stored); save_itemized_transaction of a new itemized transaction
\* that carries a ledger transaction upserts the ledger row and stores an
\* itemized row that references it.
C15_OneLedgerRowPerYnabId ==
    [][/\ \A ynab_id \in YnabIds : Cardinality(RowsOf(ynab_transactions', ynab_id)) <= 1
       /\ last'.op = "save_ynab_transaction" => LedgerUpserted(last'.transaction)
       /\ (/\ last'.op = "save_itemized_transaction"
           /\ last'.itemized.ynab_transaction # None
           /\ last'.itemized.id \notin DOMAIN itemized_transactions) =>
              /\ LedgerUpserted(last'.itemized.ynab_transaction[1])
              /\ last'.itemized.id \in DOMAIN itemized_transactions'
              /\ itemized_transactions'[last'.itemized.id].ynab_transaction_id \in
                     RowsOf(ynab_transactions', last'.itemized.ynab_transaction[1].ynab_id)]_vars

C21_LinkedIffMatched ==
    /\ \A i \in DOMAIN itemized_transactions :
           itemized_transactions[i].ynab_transaction_id # NULL
               <=> itemized_transactions[i].match_status \in {"matched", "manual_match"}
    /\ \A i \in get_unmatched_itemized_transactions :
           itemized_transactions[i].ynab_transaction_id = NULL

\* C22: after every save_ynab_transaction and save_itemized_transaction,
\* re-saves of a stored ynab_id included, every ledger link of an itemized
\* transaction and of a match record refers to a stored ledger row, and a
\* save leaves the primary key of every stored ledger row as it was.
C22_LedgerLinksResolve ==
    [][last'.op \in {"save_ynab_transaction", "save_itemized_transaction"} =>
          /\ \A i \in DOMAIN itemized_transactions' :
                 itemized_transactions'[i].ynab_transaction_id
                     \in DOMAIN ynab_transactions' \cup {NULL}
          /\ \A m \in DOMAIN transaction_matches' :
                 transaction_matches'[m].ynab_transaction_id \in DOMAIN ynab_transactions'
          /\ \A k \in DOMAIN ynab_transactions :
                 /\ k \in DOMAIN ynab_transactions'
                 /\ ynab_transactions'[k].ynab_id = ynab_transactions[k].ynab_id]_vars

\* A ledger transaction whose ynab_id is stored has been saved again; an
\* itemized transaction and a match record point at the stored row.
C22_Witness ==
    /\ last.op = "save_ynab_transaction"
    /\ \E k \in DOMAIN ynab_transactions :
           /\ ynab_transactions[k].ynab_id = last.transaction.ynab_id
           /\ k # last.transaction.id
           /\ \E i \in DOMAIN itemized_transactions :
                  itemized_transactions[i].ynab_transaction_id = k
           /\ \E m \in DOMAIN transaction_matches :
                  transaction_matches[m].ynab_transaction_id = k

\* C28: save_itemized_transaction is all or nothing.  A save that fails
\* leaves the ledger rows, the itemized rows and the items as they were; a
\* save that succeeds stores the row with exactly the items of the saved
\* object, so a row with its old items, or with no items in place of the new
\* ones, is never committed.
C28_SaveIsAllOrNothing ==
    [][last'.op = "save_itemized_transaction" =>
          IF last'.raised
          THEN UNCHANGED << ynab_transactions, itemized_transactions, transaction_items >>
          ELSE /\ last'.itemized.id \in DOMAIN itemized_transactions'
               /\ {item \in transaction_items' : item.transaction_id = last'.itemized.id}
                      = StoredItems(last'.itemized.id, last'.itemized.items)
               /\ \A i \in DOMAIN itemized_transactions :
                      /\ i \in DOMAIN itemized_transactions'
                      /\ {item \in transaction_items' : item.transaction_id = i}
                             = {item \in transaction_items : item.transaction_id = i}
      ]_vars

\* A save of a stored itemized transaction that carried a ledger transaction
\* not yet stored has failed: the ledger row its session had flushed is not
\* in the store, and the stored items are still there.
C28_Witness ==
    /\ last.op = "save_itemized_transaction"
    /\ last.raised
    /\ last.itemized.ynab_transaction # None
    /\ \A k \in DOMAIN ynab_transactions :
           ynab_transactions[k].ynab_id # last.itemized.ynab_transaction[1].ynab_id
    /\ last.itemized.id \in DOMAIN itemized_transactions
    /\ last.itemized.items = << >>
    /\ \E item \in transaction_items : item.transaction_id = last.itemized.id

----------------
(* Claims about the ledger client and the sync, checked under SpecSync     *)

\* C16: update_transaction_with_subtransactions(tx) with a non-empty
\* subtransaction list whose amounts do not sum to tx.amount raises the
\* validation error and sends no request; every request sent that carries
\* subtransactions has amounts that sum to the parent amount and carries no
\* parent category_id.
C16_InvalidSplitSendsNothing ==
    [][/\ (/\ last'.op = "update_transaction_with_subtransactions"
           /\ last'.transaction.subtransactions # << >>
           /\ SumAmounts(last'.transaction.subtransactions) # last'.transaction.amount) =>
              /\ last'.raised = "YNABValidationError"
              /\ api_requests' = api_requests
       /\ \A k \in DOMAIN api_requests' :
              api_requests'[k].subtransactions # << >> =>
                  /\ SumAmounts(api_requests'[k].subtransactions) = api_requests'[k].amount
                  /\ api_requests'[k].category_id = NULL]_vars

\* An update with an invalid split was refused after a request with a split
\* of a parent that has a category was sent.
C16_Witness ==
    /\ last.op = "update_transaction_with_subtransactions"
    /\ last.raised = "YNABValidationError"
    /\ last.transaction.subtransactions # << >>
    /\ \E k \in DOMAIN api_requests : Len(api_requests[k].subtransactions) = 2

\* C20: sync_subtransactions_to_ynab with dry_run = True does not call the
\* ledger client, sends nothing and returns None; with dry_run = False it
\* calls update_transaction_with_subtransactions once, with the given
\* transaction, and returns its result; the create-subtransactions command
\* with --dry-run does not reach the sync.
C20_DryRunSendsNothing ==
    [][/\ last'.op = "sync_subtransactions_to_ynab" =>
              IF last'.dry_run
              THEN /\ last'.client_calls = << >>
                   /\ last'.result = None
                   /\ last'.raised = NULL
                   /\ api_requests' = api_requests
              ELSE /\ last'.client_calls = << last'.transaction >>
                   /\ \E response \in Responses :
                          LET updated == update_transaction_with_subtransactions(
                                             last'.transaction, response)
                          IN  /\ last'.result = updated.result
                              /\ last'.raised = updated.raised
                              /\ api_requests' = api_requests \o updated.requests
       /\ (last'.op = "create_subtransactions" /\ last'.dry_run) =>
              /\ last'.sync_calls = << >>
              /\ api_requests' = api_requests]_vars

\* A dry run of the sync of a valid split, after a sync that was none and
\* sent its request.
C20_Witness ==
    /\ last.op = "sync_subtransactions_to_ynab"
    /\ last.dry_run
    /\ Len(last.transaction.subtransactions) = 2
    /\ validate_subtransaction_amounts(last.transaction)
    /\ Len(api_requests) = 1

\* C23: for an itemized transaction linked to a ledger transaction by
\* accept_match, a create-subtransactions run whose build succeeds and that
\* reaches the sync does not fail the ledger client's sum check.
C23_BuiltSplitPassesSumCheck ==
    [][(last'.op = "create_subtransactions" /\ last'.sync_calls # << >>) =>
          /\ last'.raised # "YNABValidationError"
          /\ validate_subtransaction_amounts(last'.sync_calls[1].transaction)]_vars

====
